---- MODULE Spec2Model ----
(***************************************************************************)
(* Module interception and transformation pipeline of rts:                 *)
(*   - src/src/register/index.ts : registerHooksPolyfill, the LIFO chain    *)
(*     of hook-sets patched over Module._resolveFilename;                   *)
(*   - src/src/resolver/index.ts : ModuleResolver (alias table, resolution  *)
(*     cache, transformer pipeline, register()/revert());                   *)
(*   - src/src/index.ts          : registerRTS over one shared resolver.    *)
(*   - transformer/ts            : TSHook, the TypeScript transformer.      *)
(* Strings are modelled as sequences of tokens, arrays as sequences with    *)
(* the 0-based indices of the source kept in the helpers that take them.    *)
(***************************************************************************)
EXTENDS Integers, Sequences, FiniteSets, TLC

VARIABLES
  hooks,     \* register/index.ts:43   the polyfill chain, index 0 first
  handles,   \* every object returned by the polyfill's register(), in call order
  stack,     \* calls of the patched Module._resolveFilename in progress
  aliases,   \* resolver/index.ts:40   per resolver, a Map in insertion order
  cache,     \* resolver/index.ts:38   per resolver, cache key -> url
  fs,        \* the paths for which fs.existsSync answers true
  last,      \* the latest call of ModuleResolver.resolve and what it returned
  transformers,   \* resolver/index.ts:42   per resolver, in registration order
  lastTransform,  \* the latest call of ModuleResolver.transformCode
  resolveFilename,  \* Module._resolveFilename: the function installed
  extensions,       \* Module._extensions: extension -> loader
  oldLoaders,       \* resolver/index.ts:44   per resolver, extension -> loader
  revertRegister,   \* resolver/index.ts:47   per resolver
  hist,             \* per resolver, its register() and revert() calls so far
  lastRequest,      \* the latest require() and what the host resolver was given
  loadDispatch,     \* the module load made since the polyfill chain last changed
  lastHook,         \* the latest call of TSHook.hook
  version,          \* process.versions.node
  nativeHooks,      \* the host's own chain of Module.registerHooks, latest first
  lastLoad,         \* the latest load of a file through Module._extensions
  cachedBy,         \* per resolver, cache key -> the resolve call that stored the entry
  lastMerge,        \* the latest call of mergeConfig and how it ended
  rtsCalls,         \* index.ts:71  the options of the registerRTS calls so far
  releaseRun        \* scripts/release.ts: one run of the script, what it did so far

chainVars == <<hooks, handles, stack, loadDispatch>>
aliasVars == <<aliases, cache, fs, last, cachedBy>>
pipeVars == <<transformers, lastTransform, lastHook>>
hostVars == <<resolveFilename, extensions, oldLoaders, revertRegister, hist, lastRequest,
              version, nativeHooks, lastLoad, lastMerge, rtsCalls, releaseRun>>
vars == <<hooks, handles, stack, aliases, cache, fs, last, transformers, lastTransform,
          resolveFilename, extensions, oldLoaders, revertRegister, hist, lastRequest,
          loadDispatch, lastHook, version, nativeHooks, lastLoad, cachedBy,
          lastMerge, rtsCalls, releaseRun>>

\* What the operations of one component leave alone.
notChain == <<aliasVars, pipeVars, hostVars>>
notAlias == <<chainVars, pipeVars, hostVars>>
notPipe == <<chainVars, aliasVars, hostVars>>
notRelease == <<chainVars, aliasVars, pipeVars, resolveFilename, extensions, oldLoaders,
               revertRegister, hist, lastRequest, version, nativeHooks, lastLoad,
               lastMerge, rtsCalls>>

(***************************************************************************)
(* Bounds of the model.                                                    *)
(***************************************************************************)
MaxHooks == 3        \* register() calls on the polyfill chain
MaxDeregCalls == 2   \* deregister() calls on one registration
MaxDepth == 2        \* nested require() calls inside a resolve hook

Max(a, b) == IF a >= b THEN a ELSE b
Min(a, b) == IF a <= b THEN a ELSE b

(***************************************************************************)
(* JavaScript array primitives used by the source (0-based indices).       *)
(***************************************************************************)
\* Array.prototype.indexOf: the first index holding x, -1 when absent.
IndexOf(s, x) ==
  IF \E i \in 1..Len(s) : s[i] = x
  THEN (CHOOSE i \in 1..Len(s) : s[i] = x /\ \A j \in 1..(i - 1) : s[j] # x) - 1
  ELSE -1

\* Array.prototype.splice(start): everything from start on is removed.
SpliceToEnd(s, start, deleteCount) ==
  LET from == IF start < 0 THEN Max(Len(s) + start, 0) ELSE Min(start, Len(s))
  IN SubSeq(s, 1, from)

\* Array.prototype.splice(start, deleteCount): a negative start counts from
\* the end of the array.
Splice(s, start, deleteCount) ==
  LET from == IF start < 0 THEN Max(Len(s) + start, 0) ELSE Min(start, Len(s))
      cnt == Min(Max(deleteCount, 0), Len(s) - from)
  IN SubSeq(s, 1, from) \o SubSeq(s, from + cnt + 1, Len(s))

\* Array.prototype.push: insertion at the end of the array (FIFO order).
AppendLast(s, x) == Append(s, x)

\* Array.prototype.unshift (register/index.ts:94).
Unshift(s, x) == <<x>> \o s

(***************************************************************************)
(* registerHooksPolyfill (register/index.ts:42-101).                       *)
(* A hook-set is [id, hasResolve, hasLoad]: id is the identity of the       *)
(* object passed to register() and grows with registration order.          *)
(***************************************************************************)
\* The members a registered hook-set has: resolve only
\* (test/register.test.ts:118-130) or load only (test/register.test.ts:138-150).
HookSets ==
  {[hasResolve |-> TRUE, hasLoad |-> FALSE], [hasResolve |-> FALSE, hasLoad |-> TRUE]}
Specifiers == {<<"@", "a", "/x">>, <<"@", "b", "/x">>, <<"n", "/x">>}
OwnUrl(h) == <<"hooked", "/x">>

\* What the host's resolver captured at line 46 returns for a request: the
\* file name it resolves to.
HostResolution(request) == <<"/abs/">> \o request

NoFrameValue == <<"-">>
NoDispatch == [called |-> FALSE]

Top == stack[Len(stack)]
SetTop(f) == [stack EXCEPT ![Len(stack)] = f]

\* register(hook): hooks.unshift(hook), returns {deregister}.
Register(hasResolve, hasLoad) ==
  /\ stack = <<>>
  /\ Len(handles) < MaxHooks
  /\ LET hook == [id |-> Len(handles) + 1, hasResolve |-> hasResolve, hasLoad |-> hasLoad]
     IN /\ hooks' = Unshift(hooks, hook)
        /\ handles' = Append(handles, [hook |-> hook, calls |-> 0])
  /\ loadDispatch' = NoDispatch
  /\ UNCHANGED stack
  /\ UNCHANGED notChain

\* deregister(): hooks.splice(hooks.indexOf(hook), 1).
Deregister(i) ==
  /\ stack = <<>>
  /\ handles[i].calls < MaxDeregCalls
  /\ hooks' = Splice(hooks, IndexOf(hooks, handles[i].hook), 1)
  /\ handles' = [handles EXCEPT ![i].calls = @ + 1]
  /\ loadDispatch' = NoDispatch
  /\ UNCHANGED stack
  /\ UNCHANGED notChain

\* A running resolve hook calls register(hook) (register/index.ts:92-94): the
\* array the dispatch in progress reads is the one that changes.
RegisterInHook(hasResolve, hasLoad) ==
  /\ stack # <<>>
  /\ Top.pc = "hook"
  /\ Len(handles) < MaxHooks
  /\ LET hook == [id |-> Len(handles) + 1, hasResolve |-> hasResolve, hasLoad |-> hasLoad]
     IN /\ hooks' = Unshift(hooks, hook)
        /\ handles' = Append(handles, [hook |-> hook, calls |-> 0])
  /\ loadDispatch' = NoDispatch
  /\ UNCHANGED stack
  /\ UNCHANGED notChain

\* A running resolve hook calls the deregister() of a registration
\* (register/index.ts:96-98).
DeregisterInHook(i) ==
  /\ stack # <<>>
  /\ Top.pc = "hook"
  /\ handles[i].calls < MaxDeregCalls
  /\ hooks' = Splice(hooks, IndexOf(hooks, handles[i].hook), 1)
  /\ handles' = [handles EXCEPT ![i].calls = @ + 1]
  /\ loadDispatch' = NoDispatch
  /\ UNCHANGED stack
  /\ UNCHANGED notChain

\* The patched function with one cursor for all the calls in progress: a
\* call made from inside a hook goes on where the outer one stands.
ResolveFilenameSharedCursor(specifier) ==
  /\ \/ stack = <<>>
     \/ /\ stack # <<>>
        /\ Top.pc = "hook"
        /\ Len(stack) < MaxDepth
  /\ stack' = Append(stack,
       [spec |-> specifier, cur |-> specifier,
        index |-> IF stack = <<>> THEN 0 ELSE Top.index, pc |-> "resolve",
        offered |-> <<>>, nexts |-> 0, url |-> NoFrameValue, hostArg |-> NoFrameValue,
        ret |-> "none", raised |-> 0, got |-> NoFrameValue, result |-> NoFrameValue,
        atStart |-> {hooks[i].id : i \in 1..Len(hooks)}, hostCalls |-> 0])
  /\ UNCHANGED <<hooks, handles>>
  /\ UNCHANGED <<loadDispatch, notChain>>

\* The patched Module._resolveFilename is entered (register/index.ts:78-79):
\* resolve(specifier, context) with index = 0.  It may be entered from
\* inside a running resolve hook (a nested require).  A frame notes in got
\* what the latest call of a continuation returned to the hook that made it,
\* in result what the patched function returns, and in atStart the hook-sets
\* of the chain when the call was made, and in hostCalls how often it called
\* the host resolver.
ResolveFilename(specifier) ==
  /\ \/ stack = <<>>
     \/ /\ stack # <<>>
        /\ Top.pc = "hook"
        /\ Len(stack) < MaxDepth
  /\ stack' = Append(stack,
       [spec |-> specifier, cur |-> specifier, index |-> 0, pc |-> "resolve",
        offered |-> <<>>, nexts |-> 0, url |-> NoFrameValue, hostArg |-> NoFrameValue,
        ret |-> "none", raised |-> 0, got |-> NoFrameValue, result |-> NoFrameValue,
        atStart |-> {hooks[i].id : i \in 1..Len(hooks)}, hostCalls |-> 0])
  /\ UNCHANGED <<hooks, handles>>
  /\ UNCHANGED <<loadDispatch, notChain>>

\* A resolve that calls the host resolver itself when the chain is exhausted.
ResolveStepAskingHost ==
  /\ stack # <<>>
  /\ Top.pc = "resolve"
  /\ IF Top.index < Len(hooks)
     THEN IF hooks[Top.index + 1].hasResolve
          THEN stack' = SetTop([Top EXCEPT !.pc = "hook",
                                           !.offered = Append(@, hooks[Top.index + 1].id)])
          ELSE stack' = SetTop([Top EXCEPT !.index = @ + 1])
     ELSE stack' = SetTop([Top EXCEPT !.pc = "host", !.url = HostResolution(Top.cur),
                                      !.got = IF Top.nexts > 0 THEN HostResolution(Top.cur)
                                              ELSE @,
                                      !.hostCalls = @ + 1])
  /\ UNCHANGED <<hooks, handles>>
  /\ UNCHANGED <<loadDispatch, notChain>>

\* One evaluation of resolve(specifier, context, index) (register/index.ts:64-75).
ResolveStep ==
  /\ stack # <<>>
  /\ Top.pc = "resolve"
  /\ IF Top.index < Len(hooks)
     THEN IF hooks[Top.index + 1].hasResolve
          THEN stack' = SetTop([Top EXCEPT !.pc = "hook",
                                           !.offered = Append(@, hooks[Top.index + 1].id)])
          ELSE stack' = SetTop([Top EXCEPT !.index = @ + 1])
     ELSE stack' = SetTop([Top EXCEPT !.pc = "host", !.url = Top.cur,
                                      !.got = IF Top.nexts > 0 THEN Top.cur ELSE @])
  /\ UNCHANGED <<hooks, handles>>
  /\ UNCHANGED <<loadDispatch, notChain>>

\* The running hook calls its continuation: resolve(specifier, context, index + 1)
\* (register/index.ts:67-69), and returns what it returns.
HookNext ==
  /\ stack # <<>>
  /\ Top.pc = "hook"
  /\ stack' = SetTop([Top EXCEPT !.pc = "resolve", !.index = @ + 1, !.nexts = @ + 1])
  /\ UNCHANGED <<hooks, handles>>
  /\ UNCHANGED <<loadDispatch, notChain>>

\* The running hook resolves the request itself: it returns {url} without
\* calling its continuation (test/register.test.ts:50-57).
HookReturn ==
  /\ stack # <<>>
  /\ Top.pc = "hook"
  /\ stack' = SetTop([Top EXCEPT !.pc = "host", !.url = OwnUrl(hooks[Top.index + 1]),
                                 !.ret = "url",
                                 !.got = IF Top.nexts > 0 THEN OwnUrl(hooks[Top.index + 1])
                                         ELSE @])
  /\ UNCHANGED <<hooks, handles>>
  /\ UNCHANGED <<loadDispatch, notChain>>

\* The running hook returns an object without url and without calling its
\* continuation: resolve returns that object (register/index.ts:66-69) and
\* the patch reads its url member (register/index.ts:79).
HookReturnNoUrl ==
  /\ stack # <<>>
  /\ Top.pc = "hook"
  /\ stack' = SetTop([Top EXCEPT !.pc = "host", !.url = <<"undefined">>, !.ret = "nourl",
                                 !.got = IF Top.nexts > 0 THEN <<"undefined">> ELSE @])
  /\ UNCHANGED <<hooks, handles>>
  /\ UNCHANGED <<loadDispatch, notChain>>

\* The exception object the resolve function of hook-set h throws.
Err(h) == h.id

\* A chain that catches what a hook throws and asks the following hook-set.
HookThrowSwallowed ==
  /\ stack # <<>>
  /\ Top.pc = "hook"
  /\ stack' = SetTop([Top EXCEPT !.pc = "resolve", !.index = @ + 1, !.nexts = @ + 1,
                                 !.ret = "throw", !.raised = Err(hooks[Top.index + 1])])
  /\ UNCHANGED <<hooks, handles>>
  /\ UNCHANGED <<loadDispatch, notChain>>

\* The running hook throws.  Neither resolve nor the patch has a try/catch
\* (register/index.ts:64-81): the call of resolve ends with the exception.
HookThrow ==
  /\ stack # <<>>
  /\ Top.pc = "hook"
  /\ stack' = SetTop([Top EXCEPT !.pc = "thrown", !.ret = "throw",
                                 !.raised = Err(hooks[Top.index + 1])])
  /\ UNCHANGED <<hooks, handles>>
  /\ UNCHANGED <<loadDispatch, notChain>>

\* The exception leaves the patched Module._resolveFilename.  When the call
\* was a require() made by a running hook, that hook receives it: it catches
\* it and goes on, or it lets it pass and its own call ends the same way.
Unwind(caught) ==
  /\ stack # <<>>
  /\ Top.pc = "thrown"
  /\ LET rest == SubSeq(stack, 1, Len(stack) - 1)
     IN stack' = IF rest = <<>> \/ caught THEN rest
                 ELSE [rest EXCEPT ![Len(rest)] =
                        [@ EXCEPT !.pc = "thrown", !.ret = "rethrow", !.raised = Top.raised]]
  /\ UNCHANGED <<hooks, handles>>
  /\ UNCHANGED <<loadDispatch, notChain>>

\* originalResolveFilename.apply(this, [url, context]) (register/index.ts:80).
HostResolve ==
  /\ stack # <<>>
  /\ Top.pc = "host"
  /\ stack' = SetTop([Top EXCEPT !.pc = "done", !.hostArg = Top.url,
                                 !.result = HostResolution(Top.url),
                                 !.hostCalls = @ + 1])
  /\ UNCHANGED <<hooks, handles>>
  /\ UNCHANGED <<loadDispatch, notChain>>

\* The patched Module._resolveFilename returns to its caller.
ResolveReturn ==
  /\ stack # <<>>
  /\ Top.pc = "done"
  /\ stack' = SubSeq(stack, 1, Len(stack) - 1)
  /\ UNCHANGED <<hooks, handles>>
  /\ UNCHANGED <<loadDispatch, notChain>>


(***************************************************************************)
(* ModuleResolver: alias table and resolution cache                        *)
(* (resolver/index.ts:36-84, 175-200).                                     *)
(* A string is a sequence of tokens; a Map is a sequence of [key, value]   *)
(* entries in insertion order.                                             *)
(***************************************************************************)
\* The ModuleResolver instances of the process: 1 is the resolver that
\* src/index.ts constructs, 2 one that a caller constructs.
Resolvers == {1, 2}

Undefined == <<"undefined">>

\* String.prototype.startsWith.
StartsWith(s, p) == Len(p) <= Len(s) /\ SubSeq(s, 1, Len(p)) = p

\* String.prototype.replace(pattern, replacement) with a string pattern:
\* the first occurrence of the pattern is replaced, a string without the
\* pattern is returned as it is.
Replace(s, p, t) ==
  LET occ == {i \in 1..(Len(s) - Len(p) + 1) : SubSeq(s, i, i + Len(p) - 1) = p}
  IN IF occ = {} THEN s
     ELSE LET i == CHOOSE x \in occ : \A y \in occ : x <= y
          IN SubSeq(s, 1, i - 1) \o t \o SubSeq(s, i + Len(p), Len(s))

\* A set that adds the new candidates to those the key has.
MapSetMerging(m, k, v) ==
  IF \E i \in 1..Len(m) : m[i].key = k
  THEN [i \in 1..Len(m) |->
          IF m[i].key = k THEN [key |-> k, value |-> m[i].value \o v] ELSE m[i]]
  ELSE Append(m, [key |-> k, value |-> v])

\* Map.prototype.set on an insertion-ordered Map: an existing key keeps its
\* place and gets the new value, a new key goes last.
MapSet(m, k, v) ==
  IF \E i \in 1..Len(m) : m[i].key = k
  THEN [i \in 1..Len(m) |-> IF m[i].key = k THEN [key |-> k, value |-> v] ELSE m[i]]
  ELSE Append(m, [key |-> k, value |-> v])

\* Map.prototype.get / set on the cache (a Map whose order is never read).
CacheGet(c, k) == IF k \in DOMAIN c THEN c[k] ELSE Undefined
CacheSet(c, k, v) == [x \in (DOMAIN c) \cup {k} |-> IF x = k THEN v ELSE c[x]]

\* fs.existsSync.
ExistsSync(files, path) == path \in files

\* The values setAlias is given: a key with a string, or with an array of strings.
AliasKeys == {<<"@">>, <<"@", "a">>}
AliasDirs == {<<"r">>, <<"m">>}
AliasTargets ==
  {[isArray |-> FALSE, str |-> d, arr |-> <<>>] : d \in AliasDirs}
    \cup {[isArray |-> TRUE, str |-> <<>>, arr |-> <<d>>] : d \in AliasDirs}
    \cup {[isArray |-> TRUE, str |-> <<>>, arr |-> p] :
             p \in {<<d, e>> : d \in AliasDirs, e \in AliasDirs} \ {<<d, d>> : d \in AliasDirs}}

\* setAlias (resolver/index.ts:76-84), one entry of Object.entries(alias):
\* the loop body does not read what earlier entries wrote, so a call with
\* several entries is the calls with one entry each, in order.
SetAliasEntry(m, key, target) ==
  IF target.isArray THEN MapSet(m, key, target.arr)
  ELSE MapSet(m, key, <<target.str>>)

\* The resolution context: the native hook API passes an object with the
\* parentURL of the calling module, the polyfill the parent Module object
\* (resolver/index.ts:132-133), which has no parentURL member.
MainModule == [parentURL |-> Undefined, module |-> "main"]
Contexts ==
  {MainModule, [parentURL |-> Undefined, module |-> "lib"],
   [parentURL |-> <<"p">>, module |-> "-"]}

\* `${specifier}:${context?.parentURL ?? ""}` (resolver/index.ts:179).
CacheKey(specifier, context) ==
  specifier \o <<":">> \o (IF context.parentURL = Undefined THEN <<>> ELSE context.parentURL)

\* target.forEach((t) => {...}) (resolver/index.ts:186-192) from candidate i
\* on: every candidate is visited, the callback's return ends only the
\* callback.  st is [url, cache, probes], probes counting the calls of
\* fs.existsSync.
RECURSIVE ScanTargets(_, _, _, _, _, _, _)
ScanTargets(st, specifier, key, alias, target, i, files) ==
  IF i > Len(target) THEN st
  ELSE LET url == Replace(specifier, alias, target[i])
           nxt == [url |-> url,
                   cache |-> IF ExistsSync(files, url)
                             THEN CacheSet(st.cache, key, url) ELSE st.cache,
                   probes |-> st.probes + 1]
       IN ScanTargets(nxt, specifier, key, alias, target, i + 1, files)

\* for (const [alias, target] of this.aliases) (resolver/index.ts:184-194)
\* from entry j on.
RECURSIVE ScanAliases(_, _, _, _, _, _)
ScanAliases(st, specifier, key, m, j, files) ==
  IF j > Len(m) THEN st
  ELSE LET nxt == IF StartsWith(specifier, m[j].key)
                  THEN ScanTargets(st, specifier, key, m[j].key, m[j].value, 1, files)
                  ELSE st
       IN ScanAliases(nxt, specifier, key, m, j + 1, files)

\* resolve without the test of line 182: the alias scan runs on every call.
ResolveAlwaysScan(m, c, files, specifier, context) ==
  LET key == CacheKey(specifier, context)
      url == CacheGet(c, key)
  IN ScanAliases([url |-> url, cache |-> c, probes |-> 0], specifier, key, m, 1, files)

\* ModuleResolver.resolve (resolver/index.ts:175-200): [url, cache, probes],
\* url being Undefined for {url: undefined}.  !url is also true of the empty
\* string.
Resolve(m, c, files, specifier, context) ==
  LET key == CacheKey(specifier, context)
      url == CacheGet(c, key)
  IN IF url = Undefined \/ url = <<>>
     THEN ScanAliases([url |-> url, cache |-> c, probes |-> 0], specifier, key, m, 1, files)
     ELSE [url |-> url, cache |-> c, probes |-> 0]

\* The call resolve(specifier, context) of a resolver whose cache went from
\* c to d is noted as the one that stored the entry of its key, if it did.
NoteStore(by, c, d, specifier, context) ==
  LET key == CacheKey(specifier, context)
  IN IF CacheGet(d, key) # CacheGet(c, key)
     THEN CacheSet(by, key, [specifier |-> specifier, context |-> context])
     ELSE by

NoCall == [called |-> FALSE]
\* No resolve call was made since the call setAlias({[key]: target}) of resolver r.
NoteSetAlias(r, key, target) ==
  [called |-> FALSE, set |-> [resolver |-> r, key |-> key, target |-> target]]
NoRequest == [called |-> FALSE]

\* The files that may exist: what the candidates of the model resolve to.
FsUniverse == {<<"r", "a", "/x">>, <<"m", "a", "/x">>, <<"r", "/x">>}

AliasInit ==
  /\ aliases = [r \in Resolvers |-> <<>>]
  /\ cache = [r \in Resolvers |-> <<>>]
  /\ last = NoCall
  /\ cachedBy = [r \in Resolvers |-> <<>>]

\* The file system the process starts with.
FsInit == fs \in SUBSET FsUniverse
NoFiles == fs = {}

\* setAlias followed by this.cache.clear().
SetAliasInvalidating(r, key, target) ==
  /\ aliases' = [aliases EXCEPT ![r] = SetAliasEntry(@, key, target)]
  /\ cache' = [cache EXCEPT ![r] = <<>>]
  /\ last' = NoteSetAlias(r, key, target)
  /\ lastRequest' = NoRequest
  /\ UNCHANGED <<fs, cachedBy>>
  /\ UNCHANGED <<chainVars, pipeVars, resolveFilename, extensions, oldLoaders,
                 revertRegister, hist, version, nativeHooks, lastLoad, lastMerge, rtsCalls, releaseRun>>

\* resolver.setAlias({[key]: target}).
SetAlias(r, key, target) ==
  /\ aliases' = [aliases EXCEPT ![r] = SetAliasEntry(@, key, target)]
  /\ last' = NoteSetAlias(r, key, target)
  /\ lastRequest' = NoRequest
  /\ UNCHANGED <<cache, fs, cachedBy>>
  /\ UNCHANGED <<chainVars, pipeVars, resolveFilename, extensions, oldLoaders,
                 revertRegister, hist, version, nativeHooks, lastLoad, lastMerge, rtsCalls, releaseRun>>

\* One call of resolver.resolve(specifier, context).
ResolveCall(r, specifier, context) ==
  LET res == Resolve(aliases[r], cache[r], fs, specifier, context)
  IN /\ cache' = [cache EXCEPT ![r] = res.cache]
     /\ cachedBy' = [cachedBy EXCEPT ![r] =
                       NoteStore(@, cache[r], res.cache, specifier, context)]
     /\ last' = [called |-> TRUE, resolver |-> r, specifier |-> specifier,
                 context |-> context, url |-> res.url, probes |-> res.probes]
     /\ UNCHANGED <<aliases, fs>>
     /\ UNCHANGED notAlias

AliasNext ==
  \/ \E k \in AliasKeys, t \in AliasTargets : SetAlias(1, k, t)
  \/ \E s \in Specifiers, c \in Contexts : ResolveCall(1, s, c)


(***************************************************************************)
(* ModuleResolver: transformer pipeline (resolver/index.ts:42, 94-104,     *)
(* 250-260).  Source text is a sequence of marks, "" the empty sequence.   *)
(***************************************************************************)
MaxTransformers == 3   \* length of one resolver's transformers list

\* TSHook (transformer/ts: exts [".ts", ".tsx"]) and transformers a caller adds.
TSHook == [id |-> "T1", exts |-> <<".ts", ".tsx">>]
TransformerPool ==
  {TSHook, [id |-> "T2", exts |-> <<".ts">>], [id |-> "T3", exts |-> <<".js">>]}

\* Source text the TypeScript compiler rejects holds the token "!".
Malformed(code) == \E i \in 1..Len(code) : code[i] = "!"

\* transformSync(code, DEFAULT_SWC_CONFIG) of the compiler: it throws on
\* malformed source, and returns the compiled text otherwise.
TransformSync(code) ==
  IF Malformed(code) THEN [threw |-> TRUE, code |-> <<>>]
  ELSE [threw |-> FALSE, code |-> Append(code, "T1")]

\* TSHook.hook (transformer/ts): result.code, and in the catch branch, after
\* console.warn, the code it was given.
TSHookHook(code) ==
  LET result == TransformSync(code)
  IN IF result.threw THEN [threw |-> FALSE, code |-> code]
     ELSE [threw |-> FALSE, code |-> result.code]

\* transformer.hook(code, filename): TSHook's, or that of a caller's
\* transformer, an external function of the text, here one that leaves its
\* own mark behind the text it is given.
Hook(t, code, filename) ==
  IF t.id = "T1" THEN TSHookHook(code).code
  ELSE IF t.id = "E" THEN <<>>
  ELSE Append(code, t.id)

\* A caller's transformer whose output is the empty text.
EmptyingHook == [id |-> "E", exts |-> <<".ts">>]

Filenames == {<<"/f", ".ts">>, <<"/f", ".js">>, <<"/f", ".md">>}
DotExts == {".js", ".ts", ".tsx", ".md"}
Sources == {<<"x">>, <<>>}

\* path.extname.
ExtName(filename) ==
  IF Len(filename) >= 2 /\ filename[Len(filename)] \in DotExts
  THEN filename[Len(filename)] ELSE ""

\* Array.prototype.includes.
Includes(s, x) == \E i \in 1..Len(s) : s[i] = x

\* transformers.reduce((code, transformer) => transformer.hook(code, filename), code).
RECURSIVE Reduce(_, _, _)
Reduce(ts, code, filename) ==
  IF ts = <<>> THEN code
  ELSE Reduce(Tail(ts), Hook(Head(ts), code, filename), filename)

\* The same fold taken from the right end of the list (reduceRight).
RECURSIVE ReduceRight(_, _, _)
ReduceRight(ts, code, filename) ==
  IF ts = <<>> THEN code
  ELSE ReduceRight(SubSeq(ts, 1, Len(ts) - 1), Hook(ts[Len(ts)], code, filename), filename)

TransformCodeFromRight(ts, code, filename) ==
  LET matching == SelectSeq(ts, LAMBDA t : Includes(t.exts, ExtName(filename)))
  IN IF Len(matching) = 0 THEN <<>> ELSE ReduceRight(matching, code, filename)

\* ModuleResolver.transformCode (resolver/index.ts:250-260).
TransformCode(ts, code, filename) ==
  LET matching == SelectSeq(ts, LAMBDA t : Includes(t.exts, ExtName(filename)))
  IN IF Len(matching) = 0 THEN <<>> ELSE Reduce(matching, code, filename)

\* A caller's transformer whose hook throws on every text.
ThrowingHook == [id |-> "X", exts |-> <<".ts">>]
Throws(t) == t.id = "X"
NoResult == <<"-">>

\* A fold that catches what a hook throws and goes on with the text it had.
RECURSIVE ReduceCatching(_, _, _, _)
ReduceCatching(ts, code, filename, ran) ==
  IF ts = <<>> THEN [threw |-> FALSE, out |-> code, ran |-> ran]
  ELSE IF Throws(Head(ts))
       THEN ReduceCatching(Tail(ts), code, filename, Append(ran, Head(ts).id))
       ELSE ReduceCatching(Tail(ts), Hook(Head(ts), code, filename), filename,
                           Append(ran, Head(ts).id))

\* How the reduce of transformCode ends (resolver/index.ts:257-259), ran
\* being the hooks it called: no try/catch surrounds the callback, so the
\* first hook that throws ends the fold and the call.
RECURSIVE ReduceOutcome(_, _, _, _)
ReduceOutcome(ts, code, filename, ran) ==
  IF ts = <<>> THEN [threw |-> FALSE, out |-> code, ran |-> ran]
  ELSE IF Throws(Head(ts))
       THEN [threw |-> TRUE, out |-> NoResult, ran |-> Append(ran, Head(ts).id)]
       ELSE ReduceOutcome(Tail(ts), Hook(Head(ts), code, filename), filename,
                          Append(ran, Head(ts).id))

\* How transformCode ends (resolver/index.ts:250-260).
TransformOutcome(ts, code, filename) ==
  ReduceOutcome(SelectSeq(ts, LAMBDA t : Includes(t.exts, ExtName(filename))),
                code, filename, <<>>)

NoTransform == [called |-> FALSE]
NoHookCall == [called |-> FALSE]

\* new ModuleResolver(transformers): resolver 1 is the one src/index.ts
\* builds with [TSHook], the others are built with no transformer.
PipeInit ==
  /\ transformers = [r \in Resolvers |-> IF r = 1 THEN <<TSHook>> ELSE <<>>]
  /\ lastTransform = NoTransform
  /\ lastHook = NoHookCall

\* The same with the caller's resolver built with a list of transformers.
CtorTransformers ==
  {<<>>, <<[id |-> "T3", exts |-> <<".js">>]>>, <<TSHook, [id |-> "T2", exts |-> <<".ts">>]>>}
PipeInitAny ==
  /\ transformers \in {[r \in Resolvers |-> IF r = 1 THEN <<TSHook>> ELSE a] :
                          a \in CtorTransformers}
  /\ lastTransform = NoTransform
  /\ lastHook = NoHookCall

\* addTransformer (resolver/index.ts:94-96).
AddTransformer(r, t) ==
  /\ Len(transformers[r]) < MaxTransformers
  /\ transformers' = [transformers EXCEPT ![r] = Append(@, t)]
  /\ UNCHANGED lastTransform
  /\ UNCHANGED <<lastHook, notPipe>>

\* removeTransformer (resolver/index.ts:102-104).
RemoveTransformer(r, t) ==
  /\ transformers' = [transformers EXCEPT ![r] = SelectSeq(@, LAMBDA x : x # t)]
  /\ UNCHANGED lastTransform
  /\ UNCHANGED <<lastHook, notPipe>>

\* One call of resolver.transformCode(code, filename).
TransformCall(r, code, filename) ==
  /\ LET outcome == TransformOutcome(transformers[r], code, filename)
     IN lastTransform' = [called |-> TRUE, pipeline |-> transformers[r], code |-> code,
                          filename |-> filename,
                          threw |-> outcome.threw, ran |-> outcome.ran,
                          out |-> IF outcome.threw THEN NoResult
                                  ELSE TransformCode(transformers[r], code, filename)]
  /\ UNCHANGED transformers
  /\ UNCHANGED <<lastHook, notPipe>>

\* The source texts TSHook.hook is given: those above and malformed ones.
TSSources == Sources \cup {<<"!">>, <<"x", "!">>}

\* One call of TSHook.hook(code, filename).
TSHookCall(code) ==
  LET result == TSHookHook(code)
  IN /\ lastHook' = [called |-> TRUE, code |-> code, threw |-> result.threw,
                     out |-> result.code]
     /\ UNCHANGED <<transformers, lastTransform>>
     /\ UNCHANGED notPipe

PipeNext ==
  \/ \E t \in TransformerPool : AddTransformer(1, t)
  \/ \E t \in TransformerPool : RemoveTransformer(1, t)
  \/ \E c \in Sources, f \in Filenames : TransformCall(1, c, f)
  \/ \E c \in TSSources : TSHookCall(c)

(***************************************************************************)
(* config/index.ts: mergeConfig.  A JavaScript value is a record whose     *)
(* kind is its type; objects, arrays and functions carry their own         *)
(* enumerable properties in insertion order, an array's keys being "0",    *)
(* "1", ...                                                                *)
(***************************************************************************)
JSUndefined == [kind |-> "undefined"]
JSNull == [kind |-> "null"]
Bool(b) == [kind |-> "boolean", v |-> b]
Str(s) == [kind |-> "string", v |-> s]
Fn(id) == [kind |-> "function", id |-> id, entries |-> <<>>]
Obj(entries) == [kind |-> "object", entries |-> entries]
Prop(key, value) == [key |-> key, value |-> value]
Arr(items) ==
  [kind |-> "array",
   entries |-> [i \in 1..Len(items) |-> Prop(ToString(i - 1), items[i])]]

\* `v instanceof Object` (config/index.ts:85).
InstanceOfObject(v) == v.kind \in {"object", "array", "function"}
\* The keys `for (const key in v)` visits, with their values (config/index.ts:84).
Enumerable(v) == IF InstanceOfObject(v) THEN v.entries ELSE <<>>
HasKey(o, key) == \E i \in 1..Len(Enumerable(o)) : o.entries[i].key = key
\* o[key] of a value that is neither undefined nor null; no key used here is
\* an index or a built-in property of a primitive.
Get(o, key) ==
  IF HasKey(o, key)
  THEN o.entries[CHOOSE i \in 1..Len(o.entries) : o.entries[i].key = key].value
  ELSE JSUndefined
\* An assignment that leaves a property the object already has as it is.
SetKeepingOld(o, key, v) ==
  IF HasKey(o, key) THEN o
  ELSE [o EXCEPT !.entries = Append(@, Prop(key, v))]

\* o[key] = v on an object, array or function.
Set(o, key, v) ==
  IF HasKey(o, key)
  THEN [o EXCEPT !.entries =
          [i \in 1..Len(@) |-> IF @[i].key = key THEN Prop(key, v) ELSE @[i]]]
  ELSE [o EXCEPT !.entries = Append(@, Prop(key, v))]

TypeError == [threw |-> TRUE, value |-> JSUndefined]
Returned(v) == [threw |-> FALSE, value |-> v]
\* The statement `oldConfig[key] = v` (config/index.ts:86, 88): a TypeError
\* on undefined and null; on another primitive a TypeError in strict code and
\* no effect otherwise.
Assign(o, key, v, strict) ==
  IF o.kind \in {"undefined", "null"} THEN TypeError
  ELSE IF ~InstanceOfObject(o) THEN (IF strict THEN TypeError ELSE Returned(o))
  ELSE Returned(Set(o, key, v))

\* mergeConfig (config/index.ts:83-92) from the i-th key of newConfig on.
RECURSIVE MergeFrom(_, _, _, _)
MergeFrom(oldConfig, newConfig, i, strict) ==
  IF i > Len(Enumerable(newConfig)) THEN Returned(oldConfig)
  ELSE LET key == newConfig.entries[i].key
           value == newConfig.entries[i].value
           assigned ==
             IF InstanceOfObject(value)
             THEN IF oldConfig.kind \in {"undefined", "null"} THEN TypeError
                  ELSE LET sub == MergeFrom(Get(oldConfig, key), value, 1, strict)
                       IN IF sub.threw THEN TypeError
                          ELSE Assign(oldConfig, key, sub.value, strict)
             ELSE Assign(oldConfig, key, value, strict)
       IN IF assigned.threw THEN TypeError
          ELSE MergeFrom(assigned.value, newConfig, i + 1, strict)

mergeConfig(oldConfig, newConfig, strict) == MergeFrom(oldConfig, newConfig, 1, strict)

\* Configurations: an alias map and a transformers list, each optional
\* (index.ts:11-16); a base may also hold null or a primitive.
Absent == [kind |-> "absent"]
AliasMaps ==
  {Obj(<<Prop("@a", Str("./a"))>>),
   Obj(<<Prop("@b", Str("./b"))>>),
   Obj(<<Prop("@a", Str("./z")), Prop("@c", Str("./c"))>>)}
ConfigTransformer(id, ext) ==
  Obj(<<Prop("exts", Arr(<<Str(ext)>>)), Prop("hook", Fn(id))>>)
TransformerLists ==
  {Arr(<<>>),
   Arr(<<ConfigTransformer("A", ".x")>>),
   Arr(<<ConfigTransformer("B", ".y")>>)}
Field(key, v) == IF v = Absent THEN <<>> ELSE <<Prop(key, v)>>
\* The object a caller passes as oldConfig or as newConfig; ref tells the two
\* objects apart whatever they hold.
Config(ref, alias, ts) ==
  [kind |-> "object", ref |-> ref,
   entries |-> Field("alias", alias) \o Field("transformers", ts)]
NextConfigs ==
  {Config("newConfig", a, t) :
     a \in AliasMaps \cup {Absent}, t \in TransformerLists \cup {Absent}}
BaseConfigs ==
  {Config("oldConfig", a, t) :
     a \in AliasMaps \cup {Absent, JSNull, Bool(FALSE)},
     t \in TransformerLists \cup {Absent}}

NoMerge == [called |-> FALSE]

\* One call mergeConfig(base, next).
MergeCall(base, next, strict) ==
  /\ lastMerge' = [called |-> TRUE, base |-> base, next |-> next, strict |-> strict,
                   result |-> mergeConfig(base, next, strict)]
  /\ UNCHANGED <<chainVars, aliasVars, pipeVars>>
  /\ UNCHANGED <<resolveFilename, extensions, oldLoaders, revertRegister, hist,
                 lastRequest, version, nativeHooks, lastLoad, rtsCalls, releaseRun>>

ConfigNext ==
  \E base \in BaseConfigs, next \in NextConfigs, strict \in BOOLEAN :
    MergeCall(base, next, strict)

(***************************************************************************)
(* ModuleResolver.register / revert on the host's module system            *)
(* (resolver/index.ts:113-163) and registerRTS (index.ts:71-91).           *)
(*                                                                         *)
(* A function held in Module._resolveFilename is the sequence of the       *)
(* closures wrapped around the host's own resolver, outermost first: <<>>  *)
(* is the host's function, <<c>> \o f the closure c that captured f as its *)
(* origResolve.  A loader is a record: the host's own loader of an         *)
(* extension, a closure made by register(), or undefined.                  *)
(***************************************************************************)
MaxRegisters == 2   \* register() calls in the process
MaxReverts == 2     \* revert() calls in the process

Exts == {".js", ".ts", ".tsx"}

OriginalResolveFilename == <<>>
\* The closure the n-th register() call of the process installs for resolver r
\* (resolver/index.ts:132-135).
ResolveClosure(r, n) == [owner |-> r, reg |-> n]

UndefinedLoader == [kind |-> "undefined", owner |-> 0, ext |-> "", reg |-> 0, pos |-> 0]
NativeLoader(ext) == [kind |-> "native", owner |-> 0, ext |-> ext, reg |-> 0, pos |-> 0]
\* (mod, filename) => this.loader(mod, filename, ext) (resolver/index.ts:142-143),
\* made by the n-th register() call for entry i of its extensions list.
LoaderClosure(r, ext, n, i) == [kind |-> "rts", owner |-> r, ext |-> ext, reg |-> n, pos |-> i]

\* Module._extensions of a fresh process: .js has a loader, .ts and .tsx none.
NativeExtensions == [e \in Exts |-> IF e = ".js" THEN NativeLoader(e) ELSE UndefinedLoader]

NoRevertRegister ==
  [set |-> FALSE, native |-> FALSE, handle |-> 0, origResolve |-> <<>>, extensions |-> <<>>]

\* process.versions.node of the host, and the digits of a decimal numeral.
NodeVersion == <<"2", "2", ".", "1", "2", ".", "0">>
DigitValue(c) ==
  CASE c = "0" -> 0 [] c = "1" -> 1 [] c = "2" -> 2 [] c = "3" -> 3 [] c = "4" -> 4
    [] c = "5" -> 5 [] c = "6" -> 6 [] c = "7" -> 7 [] c = "8" -> 8 [] c = "9" -> 9

\* String.prototype.split(".")[0]: the characters before the first ".".
RECURSIVE BeforeDot(_)
BeforeDot(v) ==
  IF v = <<>> \/ Head(v) = "." THEN <<>> ELSE <<Head(v)>> \o BeforeDot(Tail(v))

\* Number(digits); Number("") is 0.
RECURSIVE ToNumber(_)
ToNumber(d) ==
  IF d = <<>> THEN 0 ELSE 10 * ToNumber(SubSeq(d, 1, Len(d) - 1)) + DigitValue(d[Len(d)])

\* String.prototype.slice(1).
SliceOne(v) == SubSeq(v, 2, Len(v))

\* major (resolver/index.ts:7).
ResolverMajor(v) == ToNumber(SliceOne(BeforeDot(v)))

\* process.version: "v" followed by process.versions.node.
ProcessVersion(v) == <<"v">> \o v

\* major of the register module (register/index.ts:9-10), from process.version.
RegisterMajor(pv) == ToNumber(SliceOne(BeforeDot(pv)))

\* The Node.js releases the process may run on.
Versions ==
  {<<"8", ".", "9", ".", "4">>, <<"1", "8", ".", "0", ".", "0">>, NodeVersion,
   <<"2", "4", ".", "0", ".", "0">>, <<"2", "5", ".", "1", ".", "0">>}

\* this.transformers.flatMap((t) => t.exts) (resolver/index.ts:138).
RECURSIVE FlatMapExts(_)
FlatMapExts(ts) == IF ts = <<>> THEN <<>> ELSE Head(ts).exts \o FlatMapExts(Tail(ts))

\* extensions.forEach((ext) => {...}) of register() (resolver/index.ts:140-145)
\* from entry i on; st is [table, old]: Module._extensions and this.oldLoaders.
RECURSIVE InstallLoaders(_, _, _, _, _, _)
InstallLoaders(st, exts, i, originJSLoader, r, n) ==
  IF i > Len(exts) THEN st
  ELSE LET ext == exts[i]
           originLoader == IF st.table[ext] # UndefinedLoader
                           THEN st.table[ext] ELSE originJSLoader
       IN InstallLoaders(
            [table |-> [st.table EXCEPT ![ext] = LoaderClosure(r, ext, n, i)],
             old |-> [st.old EXCEPT ![ext] = originLoader]],
            exts, i + 1, originJSLoader, r, n)

\* extensions.forEach((ext) => {...}) of deregister (resolver/index.ts:150-152).
RECURSIVE RestoreLoaders(_, _, _, _)
RestoreLoaders(table, exts, i, old) ==
  IF i > Len(exts) THEN table
  ELSE RestoreLoaders([table EXCEPT ![exts[i]] = old[exts[i]]], exts, i + 1, old)

\* What the host compiles when the loaders called one inside the other were
\* those of the resolvers ws (resolver/index.ts:230-236): each call of
\* this.loader wraps mod._compile, so the wrapper of the last call runs
\* first, restores the one before it and hands it its output.
RECURSIVE Compile(_, _, _)
Compile(ws, code, filename) ==
  IF ws = <<>> THEN code
  ELSE Compile(SubSeq(ws, 1, Len(ws) - 1),
               TransformCode(transformers[ws[Len(ws)]], code, filename), filename)

\* The loader l is called for a file (resolver/index.ts:229-238): a closure
\* of register() runs this.loader, which calls this.oldLoaders.get(ext); the
\* host's loader reads the file and calls mod._compile; an undefined
\* oldLoader is not called.  old is the oldLoaders of the resolvers, seen the
\* closures already entered: entering one again never returns (the call
\* stack overflows).
RECURSIVE RunLoader(_, _, _, _, _, _)
RunLoader(l, ws, filename, content, old, seen) ==
  IF l.kind = "undefined" THEN [status |-> "not compiled", code |-> <<>>]
  ELSE IF l.kind = "native"
  THEN [status |-> "compiled", code |-> Compile(ws, content, filename)]
  ELSE IF l \in seen THEN [status |-> "stack overflow", code |-> <<>>]
  ELSE RunLoader(old[l.owner][l.ext], Append(ws, l.owner), filename, content, old,
                 seen \cup {l})

\* Module.prototype.load with Module._extensions = table: the loader of the
\* file's extension, the .js loader when it has none.
LoadOutcome(table, old, filename, content) ==
  LET ext == ExtName(filename)
      l == IF ext \in Exts /\ table[ext] # UndefinedLoader THEN table[ext] ELSE table[".js"]
  IN RunLoader(l, <<>>, filename, content, old, {})

Count(s, x) == Cardinality({i \in 1..Len(s) : s[i] = x})
RegisterCalls == Count(hist[1], "reg") + Count(hist[2], "reg")
RevertCalls == Count(hist[1], "rev") + Count(hist[2], "rev")

NoLoad == [called |-> FALSE]

\* The release script before it is started: nothing was changed yet, made
\* being the changes a run made to the working tree, the registry and git.
NoRun ==
  [pc |-> "idle", command |-> "", dryRun |-> FALSE, skipBuild |-> FALSE,
   skipTests |-> FALSE, made |-> {}, exit |-> "-"]

HostInitAt(v) ==
  /\ version = v
  /\ nativeHooks = <<>>
  /\ lastLoad = NoLoad
  /\ resolveFilename = OriginalResolveFilename
  /\ extensions = NativeExtensions
  /\ oldLoaders = [r \in Resolvers |-> [e \in Exts |-> UndefinedLoader]]
  /\ revertRegister = [r \in Resolvers |-> NoRevertRegister]
  /\ hist = [r \in Resolvers |-> <<>>]
  /\ lastRequest = NoRequest
  /\ lastMerge = NoMerge
  /\ rtsCalls = <<>>
  /\ releaseRun = NoRun

HostInit == HostInitAt(NodeVersion)

\* register() of resolver r whose transformers list is ts (resolver/index.ts:
\* 113-156): Module.registerHooks when major >= 24, the patch of
\* Module._resolveFilename and Module._extensions otherwise.
RegisterWith(r, ts) ==
  /\ RegisterCalls < MaxRegisters
  /\ LET n == RegisterCalls + 1
         origResolve == resolveFilename
         exts == FlatMapExts(ts)
         st == InstallLoaders([table |-> extensions, old |-> oldLoaders[r]],
                              exts, 1, extensions[".js"], r, n)
     IN IF ResolverMajor(version) >= 24
        THEN /\ nativeHooks' = <<[owner |-> r, reg |-> n]>> \o nativeHooks
             /\ revertRegister' = [revertRegister EXCEPT ![r] =
                  [set |-> TRUE, native |-> TRUE, handle |-> n,
                   origResolve |-> <<>>, extensions |-> <<>>]]
             /\ UNCHANGED <<resolveFilename, extensions, oldLoaders>>
        ELSE /\ resolveFilename' = <<ResolveClosure(r, n)>> \o origResolve
             /\ extensions' = st.table
             /\ oldLoaders' = [oldLoaders EXCEPT ![r] = st.old]
             /\ revertRegister' = [revertRegister EXCEPT ![r] =
                  [set |-> TRUE, native |-> FALSE, handle |-> n,
                   origResolve |-> origResolve, extensions |-> exts]]
             /\ UNCHANGED nativeHooks
  /\ hist' = [hist EXCEPT ![r] = Append(@, "reg")]
  /\ UNCHANGED <<lastRequest, chainVars, cache, fs, last, lastTransform, lastHook>>
  /\ UNCHANGED <<version, lastLoad, cachedBy, lastMerge, releaseRun>>

\* resolver.register().
ResolverRegister(r) ==
  /\ RegisterWith(r, transformers[r])
  /\ UNCHANGED <<aliases, transformers, rtsCalls>>

\* resolver.revert() (resolver/index.ts:147-153, 161-163): the deregister of
\* the latest register() call, the host's own one in the native branch.
Revert(r) ==
  /\ RevertCalls < MaxReverts
  /\ IF ~revertRegister[r].set
     THEN UNCHANGED <<resolveFilename, extensions, nativeHooks>>
     ELSE IF revertRegister[r].native
     THEN /\ nativeHooks' = SelectSeq(nativeHooks,
                                      LAMBDA h : h.reg # revertRegister[r].handle)
          /\ UNCHANGED <<resolveFilename, extensions>>
     ELSE /\ resolveFilename' = revertRegister[r].origResolve
          /\ extensions' = RestoreLoaders(extensions, revertRegister[r].extensions, 1,
                                          oldLoaders[r])
          /\ UNCHANGED nativeHooks
  /\ hist' = [hist EXCEPT ![r] = Append(@, "rev")]
  /\ UNCHANGED <<oldLoaders, revertRegister, lastRequest, chainVars, aliasVars, pipeVars>>
  /\ UNCHANGED <<version, lastLoad, lastMerge, rtsCalls, releaseRun>>

\* The options registerRTS is called with: alias entries and transformers.
RTSOptions ==
  {[alias |-> <<>>, transformers |-> <<>>],
   [alias |-> <<[key |-> <<"@">>, target |-> [isArray |-> FALSE, str |-> <<"r">>, arr |-> <<>>]]>>,
    transformers |-> <<[id |-> "T2", exts |-> <<".ts">>]>>]}

RECURSIVE SetAliasEntries(_, _)
SetAliasEntries(m, entries) ==
  IF entries = <<>> THEN m
  ELSE SetAliasEntries(SetAliasEntry(m, Head(entries).key, Head(entries).target), Tail(entries))

\* A registerRTS that configures the resolver afresh: the transformers of
\* the call take the place of those of earlier calls.
RegisterRTSReplacing(options) ==
  /\ 1 + Len(options.transformers) <= MaxTransformers
  /\ aliases' = [aliases EXCEPT ![1] = SetAliasEntries(@, options.alias)]
  /\ transformers' = [transformers EXCEPT ![1] = <<TSHook>> \o options.transformers]
  /\ rtsCalls' = Append(rtsCalls, options)
  /\ RegisterWith(1, <<TSHook>> \o options.transformers)

\* registerRTS(options) (index.ts:71-86) on the resolver of index.ts.
RegisterRTS(options) ==
  /\ Len(transformers[1]) + Len(options.transformers) <= MaxTransformers
  /\ aliases' = [aliases EXCEPT ![1] = SetAliasEntries(@, options.alias)]
  /\ transformers' = [transformers EXCEPT ![1] = @ \o options.transformers]
  /\ rtsCalls' = Append(rtsCalls, options)
  /\ RegisterWith(1, transformers[1] \o options.transformers)

\* The function registerRTS returned is called (index.ts:88-90).
Cleanup == Revert(1)

\* The host calls Module._resolveFilename(specifier, parent): the function f
\* is applied to the specifier; c is the caches of the resolvers.  A closure
\* of resolver r runs r.resolve and hands url ?? specifier to its origResolve
\* (resolver/index.ts:132-135); [hostArg, cache].
RECURSIVE CallResolveFilename(_, _, _, _, _)
CallResolveFilename(f, specifier, context, c, by) ==
  IF f = OriginalResolveFilename THEN [hostArg |-> specifier, cache |-> c, by |-> by]
  ELSE LET r == Head(f).owner
           res == Resolve(aliases[r], c[r], fs, specifier, context)
           arg == IF res.url = Undefined THEN specifier ELSE res.url
       IN CallResolveFilename(Tail(f), arg, context, [c EXCEPT ![r] = res.cache],
            [by EXCEPT ![r] = NoteStore(@, c[r], res.cache, specifier, context)])

\* The third and fourth arguments the host passes to Module._resolveFilename:
\* isMain, and the options of require.resolve(request, options).
\* The entry script is resolved with isMain true and no options, a
\* require.resolve(request, {paths}) with isMain false and its options.
RequestArguments ==
  {[isMain |-> <<"true">>, options |-> Undefined],
   [isMain |-> <<"false">>, options |-> <<"paths">>]}

\* What the host's own resolver receives as isMain and options when f is
\* called with them.  A closure takes (specifier, context) only and calls its
\* origResolve with [url ?? specifier, context] (resolver/index.ts:132-134;
\* the same at register/index.ts:78-80), so everything below it sees both as
\* undefined; the host's function itself receives what it was called with.
ForwardedArguments(f, isMain, options) ==
  IF f = OriginalResolveFilename THEN [isMain |-> isMain, options |-> options]
  ELSE [isMain |-> Undefined, options |-> Undefined]

\* Module._resolveFilename(specifier, parent, isMain, options) from the main
\* module: the context is the parent Module object, which has no parentURL.
Request(specifier, isMain, options) ==
  LET res == CallResolveFilename(resolveFilename, specifier, MainModule, cache, cachedBy)
      fwd == ForwardedArguments(resolveFilename, isMain, options)
  IN /\ cache' = res.cache
     /\ cachedBy' = res.by
     /\ lastRequest' = [called |-> TRUE, specifier |-> specifier, entry |-> resolveFilename,
                        hostArg |-> res.hostArg, isMain |-> isMain, options |-> options,
                        hostIsMain |-> fwd.isMain, hostOptions |-> fwd.options]
     /\ UNCHANGED <<resolveFilename, extensions, oldLoaders, revertRegister, hist>>
     /\ UNCHANGED <<version, nativeHooks, lastLoad, lastMerge, rtsCalls, releaseRun>>
     /\ UNCHANGED <<aliases, fs, last, chainVars, pipeVars>>

\* ModuleResolver.load(url) (resolver/index.ts:211-217) on a file whose text
\* is content: null when transformCode returned the empty string.
ResolverLoad(r, url, content) ==
  LET code == TransformCode(transformers[r], content, url)
  IN IF code # <<>> THEN [isNull |-> FALSE, format |-> "commonjs", code |-> code]
     ELSE [isNull |-> TRUE, format |-> "", code |-> <<>>]

\* The load hooks of the native chain (resolver/index.ts:121-127) from its
\* most recent registration on: a hook returns its resolver's result, or
\* nextLoad(url, parent) when that is null; the host's default step loads the
\* file as it is.
RECURSIVE NativeLoad(_, _, _)
NativeLoad(chain, url, content) ==
  IF chain = <<>> THEN [status |-> "compiled", code |-> content]
  ELSE LET result == ResolverLoad(Head(chain).owner, url, content)
       IN IF ~result.isNull THEN [status |-> "compiled", code |-> result.code]
          ELSE NativeLoad(Tail(chain), url, content)

\* The host loads the file filename, whose text is content.
Load(filename, content) ==
  /\ lastLoad' = [called |-> TRUE, filename |-> filename, content |-> content,
                  outcome |-> IF nativeHooks # <<>>
                              THEN NativeLoad(nativeHooks, filename, content)
                              ELSE LoadOutcome(extensions, oldLoaders, filename, content)]
  /\ UNCHANGED <<resolveFilename, extensions, oldLoaders, revertRegister, hist, lastRequest>>
  /\ UNCHANGED <<version, nativeHooks, lastMerge, rtsCalls, releaseRun>>
  /\ UNCHANGED <<chainVars, aliasVars, pipeVars>>

\* One resolver whose pipeline changes while it registers, reverts and loads;
\* the transformers it is given: TSHook and one more for ".ts".
LoadPool == {TSHook, [id |-> "T2", exts |-> <<".ts">>]}
LoadNext ==
  \/ \E t \in LoadPool : AddTransformer(2, t)
  \/ \E t \in LoadPool : RemoveTransformer(2, t)
  \/ ResolverRegister(2)
  \/ Revert(2)
  \/ \E f \in Filenames, c \in Sources : Load(f, c)

\* A file is created or removed while the process runs: what fs.existsSync
\* (resolver/index.ts:188) answers for path changes.
FsChange(path) ==
  /\ fs' = IF path \in fs THEN fs \ {path} ELSE fs \cup {path}
  /\ UNCHANGED <<aliases, cache, last, cachedBy>>
  /\ UNCHANGED notAlias

\* One resolver that resolves one request while its alias table, its
\* pipeline, its registration and the disk change.
CacheDirs == {[isArray |-> FALSE, str |-> d, arr |-> <<>>] : d \in AliasDirs}
CacheFiles == {<<"r", "a", "/x">>, <<"m", "a", "/x">>}
CacheNext ==
  \/ \E t \in CacheDirs : SetAlias(2, <<"@">>, t)
  \/ ResolveCall(2, <<"@", "a", "/x">>, MainModule)
  \/ \E path \in CacheFiles : FsChange(path)
  \/ AddTransformer(2, TSHook)
  \/ ResolverRegister(2)
  \/ Revert(2)

\* The load hook register() hands to Module.registerHooks (resolver/index.ts:
\* 121-127) is called for url, a file whose text is content: the result of
\* this.load(url), or nextLoad(url, parent), the host's load of the file as
\* it is, when that is null.
LoadHook(r, url, content) ==
  /\ lastLoad' = [called |-> TRUE, filename |-> url, content |-> content,
                  outcome |-> NativeLoad(<<[owner |-> r, reg |-> 0]>>, url, content)]
  /\ UNCHANGED <<resolveFilename, extensions, oldLoaders, revertRegister, hist, lastRequest>>
  /\ UNCHANGED <<version, nativeHooks, lastMerge, rtsCalls, releaseRun>>
  /\ UNCHANGED <<chainVars, aliasVars, pipeVars>>

\* One resolver whose transformers may output the empty text.
SentinelPool == {[id |-> "T2", exts |-> <<".ts">>], EmptyingHook}
SentinelNext ==
  \/ \E t \in SentinelPool : AddTransformer(2, t)
  \/ \E t \in SentinelPool : RemoveTransformer(2, t)
  \/ \E c \in Sources, f \in Filenames : TransformCall(2, c, f)
  \/ \E c \in Sources, f \in Filenames : LoadHook(2, f, c)

\* One resolver whose transformers may throw.
ThrowPool == {[id |-> "T2", exts |-> <<".ts">>], ThrowingHook}
ThrowNext ==
  \/ \E t \in ThrowPool : AddTransformer(2, t)
  \/ \E t \in ThrowPool : RemoveTransformer(2, t)
  \/ \E c \in Sources, f \in Filenames : TransformCall(2, c, f)

HostNext ==
  \/ \E r \in Resolvers : ResolverRegister(r)
  \/ \E r \in Resolvers : Revert(r)
  \/ \E o \in RTSOptions : RegisterRTS(o)
  \/ Cleanup

\* One registered resolver serving requests.
RequestTargets ==
  {[isArray |-> FALSE, str |-> <<"m">>, arr |-> <<>>],
   [isArray |-> TRUE, str |-> <<>>, arr |-> <<<<"r">>, <<"m">>>>]}

RequestNext ==
  \/ \E k \in AliasKeys, t \in RequestTargets : SetAlias(1, k, t)
  \/ ResolverRegister(1)
  \/ Revert(1)
  \/ \E s \in Specifiers, a \in RequestArguments : Request(s, a.isMain, a.options)

\* The host loads a resolved module while the chain is installed
\* (Module.prototype.load): it runs the loader of Module._extensions.
\* registerHooksPolyfill patches Module._resolveFilename only and reads only
\* the resolve member of a hook-set (register/index.ts:66-67, 78-81), so no
\* load member is called; offered lists the hook-sets whose load was called.
ModuleLoad ==
  /\ stack = <<>>
  /\ loadDispatch' = [called |-> TRUE, offered |-> <<>>]
  /\ UNCHANGED <<hooks, handles, stack>>
  /\ UNCHANGED notChain

ChainInit ==
  /\ hooks = <<>>
  /\ handles = <<>>
  /\ stack = <<>>
  /\ loadDispatch = NoDispatch

(***************************************************************************)
(* Specifications.  Each one runs one component from its state after       *)
(* construction; the other components stay as constructed.                 *)
(***************************************************************************)
\* The polyfill chain of the register module.
SpecChainInit == ChainInit /\ AliasInit /\ NoFiles /\ PipeInit /\ HostInit

\* One ModuleResolver's alias table and cache.
SpecAliasInit == ChainInit /\ AliasInit /\ FsInit /\ PipeInit /\ HostInit

SpecAlias == SpecAliasInit /\ [][AliasNext]_vars

\* One ModuleResolver's transformer pipeline.
SpecTransformInit == ChainInit /\ AliasInit /\ NoFiles /\ PipeInit /\ HostInit

SpecTransform == SpecTransformInit /\ [][PipeNext]_vars

\* ModuleResolver instances registering and reverting on the host.
SpecHostInit == ChainInit /\ AliasInit /\ NoFiles /\ PipeInitAny /\ HostInit

SpecHost == SpecHostInit /\ [][HostNext]_vars

\* scripts/release.ts, a process of its own.  Each function of the script is
\* one step; a command it runs (pnpm, git) or the build ends well or fails.
Commands == {"release", "build", "test", "tag", "init", "publish", ""}

Exited(run, code) == [run EXCEPT !.pc = "exited", !.exit = code]

\* Where release() goes after its checks, after the tests and after the
\* build (release.ts:255-273).
AfterBuild(run) ==
  IF ~run.dryRun THEN [run EXCEPT !.pc = "runChangesetVersion"] ELSE Exited(run, "0")
AfterTests(run) ==
  IF ~run.skipBuild THEN [run EXCEPT !.pc = "buildProject"] ELSE AfterBuild(run)
AfterChecks(run) ==
  IF ~run.skipTests THEN [run EXCEPT !.pc = "runTests"] ELSE AfterTests(run)

\* The top level of the script (release.ts:295-344) with process.argv =
\* [command, flags...]: init runs before the flags are read, a missing or
\* unknown command prints the usage text and exits with 1.
Launch(command, dryRun, skipBuild, skipTests) ==
  /\ releaseRun.pc = "idle"
  /\ LET run == [releaseRun EXCEPT !.command = command]
         cfg == [run EXCEPT !.dryRun = dryRun, !.skipBuild = skipBuild,
                            !.skipTests = skipTests]
     IN releaseRun' =
          IF command = "init" THEN [run EXCEPT !.pc = "initChangeset"]
          ELSE IF command \notin {"release", "build", "test", "tag"} THEN Exited(cfg, "1")
          ELSE IF command = "release" THEN [cfg EXCEPT !.pc = "checkChangesetInstalled"]
          ELSE IF command = "build" THEN [cfg EXCEPT !.pc = "buildProject"]
          ELSE IF command = "test" THEN [cfg EXCEPT !.pc = "runTests"]
          ELSE [cfg EXCEPT !.pc = "createGitTag"]
  /\ UNCHANGED notRelease

\* initChangeset (release.ts:283-292), then process.exit(0) (release.ts:300).
InitChangeset(ok) ==
  /\ releaseRun.pc = "initChangeset"
  /\ releaseRun' = IF ok THEN Exited([releaseRun EXCEPT !.made = @ \cup {"changeset init"}], "0")
                   ELSE Exited(releaseRun, "1")
  /\ UNCHANGED notRelease

\* checkChangesetInstalled (release.ts:96-104).
CheckChangesetInstalled(ok) ==
  /\ releaseRun.pc = "checkChangesetInstalled"
  /\ releaseRun' = IF ok THEN [releaseRun EXCEPT !.pc = "checkChangesetFiles"]
                   ELSE Exited(releaseRun, "1")
  /\ UNCHANGED notRelease

\* checkChangesetFiles (release.ts:109-128).
CheckChangesetFiles(ok) ==
  /\ releaseRun.pc = "checkChangesetFiles"
  /\ releaseRun' = IF ok THEN AfterChecks(releaseRun) ELSE Exited(releaseRun, "1")
  /\ UNCHANGED notRelease

\* runTests (release.ts:133-142), from release() or as the command test.
RunTests(ok) ==
  /\ releaseRun.pc = "runTests"
  /\ releaseRun' = IF ~ok THEN Exited(releaseRun, "1")
                   ELSE IF releaseRun.command = "release" THEN AfterTests(releaseRun)
                   ELSE Exited(releaseRun, "0")
  /\ UNCHANGED notRelease

\* buildProject (release.ts:154-165) and build (release.ts:32-79): build
\* makes dist/cjs and writes a file for each source file; config is not
\* passed to it.  When it fails, wrote says whether files were written before.
BuildProject(ok, wrote) ==
  /\ releaseRun.pc = "buildProject"
  /\ ok => wrote
  /\ LET run == IF wrote THEN [releaseRun EXCEPT !.made = @ \cup {"build output"}]
                ELSE releaseRun
     IN releaseRun' = IF ~ok THEN Exited(run, "1")
                      ELSE IF run.command = "release" THEN AfterBuild(run)
                      ELSE Exited(run, "0")
  /\ UNCHANGED notRelease

\* runChangesetVersion (release.ts:170-179).
RunChangesetVersion(ok) ==
  /\ releaseRun.pc = "runChangesetVersion"
  /\ releaseRun' = IF ok THEN [releaseRun EXCEPT !.pc = "publishToNpm",
                                                 !.made = @ \cup {"version bump"}]
                   ELSE Exited(releaseRun, "1")
  /\ UNCHANGED notRelease

\* publishToNpm (release.ts:184-198), the last step of release().
PublishToNpm(ok) ==
  /\ releaseRun.pc = "publishToNpm"
  /\ releaseRun' = IF releaseRun.dryRun THEN Exited(releaseRun, "0")
                   ELSE IF ok THEN Exited([releaseRun EXCEPT !.made = @ \cup {"npm publish"}], "0")
                   ELSE Exited(releaseRun, "1")
  /\ UNCHANGED notRelease

\* createGitTag (release.ts:216-238), the command tag: git tag, then git push
\* of the tag; pushed says whether the second command went well.
CreateGitTag(tagged, pushed) ==
  /\ releaseRun.pc = "createGitTag"
  /\ pushed => tagged
  /\ releaseRun' =
       IF releaseRun.dryRun THEN Exited(releaseRun, "0")
       ELSE IF ~tagged THEN Exited(releaseRun, "1")
       ELSE IF ~pushed THEN Exited([releaseRun EXCEPT !.made = @ \cup {"git tag"}], "1")
       ELSE Exited([releaseRun EXCEPT !.made = @ \cup {"git tag", "git push"}], "0")
  /\ UNCHANGED notRelease

ReleaseNext ==
  \/ \E c \in Commands, d \in BOOLEAN, b \in BOOLEAN, t \in BOOLEAN : Launch(c, d, b, t)
  \/ \E ok \in BOOLEAN : InitChangeset(ok)
  \/ \E ok \in BOOLEAN : CheckChangesetInstalled(ok)
  \/ \E ok \in BOOLEAN : CheckChangesetFiles(ok)
  \/ \E ok \in BOOLEAN : RunTests(ok)
  \/ \E ok \in BOOLEAN, wrote \in BOOLEAN : BuildProject(ok, wrote)
  \/ \E ok \in BOOLEAN : RunChangesetVersion(ok)
  \/ \E ok \in BOOLEAN : PublishToNpm(ok)
  \/ \E tagged \in BOOLEAN, pushed \in BOOLEAN : CreateGitTag(tagged, pushed)

SpecReleaseInit == ChainInit /\ AliasInit /\ NoFiles /\ PipeInit /\ HostInit

SpecRelease == SpecReleaseInit /\ [][ReleaseNext]_vars

\* registerRTS calls, their cleanups and transforms by the shared resolver.
RTSNext ==
  \/ \E o \in RTSOptions : RegisterRTS(o)
  \/ Cleanup
  \/ \E c \in Sources, f \in Filenames : TransformCall(1, c, f)

SpecRTSInit == ChainInit /\ AliasInit /\ NoFiles /\ PipeInit /\ HostInit

SpecRTS == SpecRTSInit /\ [][RTSNext]_vars

\* Loads through Module._extensions while one resolver is in use.
SpecLoadInit == ChainInit /\ AliasInit /\ NoFiles /\ PipeInit /\ HostInit

SpecLoad == SpecLoadInit /\ [][LoadNext]_vars

\* transformCode and the load hook with transformers that output empty text.
SpecSentinelInit == ChainInit /\ AliasInit /\ NoFiles /\ PipeInit /\ HostInit

SpecSentinel == SpecSentinelInit /\ [][SentinelNext]_vars

\* transformCode with transformers that throw.
SpecThrowInit == ChainInit /\ AliasInit /\ NoFiles /\ PipeInit /\ HostInit

SpecThrow == SpecThrowInit /\ [][ThrowNext]_vars

\* Resolvers registering on any release of Node.js.
SpecVersionInit ==
  /\ ChainInit /\ AliasInit /\ NoFiles /\ PipeInit
  /\ \E v \in Versions : HostInitAt(v)

SpecVersion == SpecVersionInit /\ [][HostNext]_vars

\* require() calls through the resolution entry point.
SpecRequestInit == ChainInit /\ AliasInit /\ FsInit /\ PipeInit /\ HostInit

SpecRequest == SpecRequestInit /\ [][RequestNext]_vars

\* The resolution cache while everything around it changes.
SpecCacheInit == ChainInit /\ AliasInit /\ NoFiles /\ PipeInit /\ HostInit

SpecCache == SpecCacheInit /\ [][CacheNext]_vars

\* Calls of mergeConfig.
SpecConfigInit == ChainInit /\ AliasInit /\ NoFiles /\ PipeInit /\ HostInit

SpecConfig == SpecConfigInit /\ [][ConfigNext]_vars

ChainNext ==
  \/ \E h \in HookSets : Register(h.hasResolve, h.hasLoad)
  \/ \E i \in 1..Len(handles) : Deregister(i)
  \/ \E s \in Specifiers : ResolveFilename(s)
  \/ ResolveStep
  \/ HookNext
  \/ HookReturn
  \/ HookReturnNoUrl
  \/ HookThrow
  \/ \E caught \in BOOLEAN : Unwind(caught)
  \/ HostResolve
  \/ ResolveReturn
  \/ ModuleLoad

SpecChain == SpecChainInit /\ [][ChainNext]_vars

\* Hook-sets with a resolve function that always delegate, and that register
\* and deregister hook-sets while they run.
ReentrantNext ==
  \/ Register(TRUE, FALSE)
  \/ \E i \in 1..Len(handles) : Deregister(i)
  \/ RegisterInHook(TRUE, FALSE)
  \/ \E i \in 1..Len(handles) : DeregisterInHook(i)
  \/ ResolveFilename(<<"n", "/x">>)
  \/ ResolveStep
  \/ HookNext
  \/ HostResolve
  \/ ResolveReturn

SpecReentrantInit == ChainInit /\ AliasInit /\ NoFiles /\ PipeInit /\ HostInit

SpecReentrant == SpecReentrantInit /\ [][ReentrantNext]_vars

(***************************************************************************)
(* Properties of the polyfill chain.                                       *)
(***************************************************************************)
Range(s) == {s[i] : i \in 1..Len(s)}

RECURSIVE SortDesc(_)
SortDesc(S) ==
  IF S = {} THEN <<>>
  ELSE LET m == CHOOSE x \in S : \A y \in S : y <= x
       IN <<m>> \o SortDesc(S \ {m})

IsPrefix(p, s) == Len(p) <= Len(s) /\ SubSeq(s, 1, Len(p)) = p

\* The hook-sets of the chain that have a resolve function, most recently
\* registered first (by identity, whatever their position in the array).
ResolveOrder == SortDesc({h.id : h \in {x \in Range(hooks) : x.hasResolve}})

\* C1: with hook-set A registered before hook-set B, every resolution request
\* is offered to B's resolve first, A's resolve is invoked only after B
\* called next, and when every hook-set delegates the original host resolver
\* receives the request's specifier.
C1_LifoDispatch ==
  \A k \in 1..Len(stack) :
    LET f == stack[k] IN
      /\ IsPrefix(f.offered, ResolveOrder)
      /\ Len(f.offered) <= f.nexts + 1
      /\ (f.pc \in {"host", "done"} /\ f.nexts = Len(f.offered))
            => (f.offered = ResolveOrder /\ f.url = f.spec)
      /\ f.pc = "done" => f.hostArg = f.url

\* A then B registered, B and A both delegated, the host resolver got the request.
C1_Witness ==
  /\ Len(hooks) = 2
  /\ \E k \in 1..Len(stack) :
       /\ stack[k].pc = "done"
       /\ stack[k].offered = <<2, 1>>
       /\ stack[k].nexts = 2
       /\ stack[k].hostArg = stack[k].spec

(***************************************************************************)
(* Properties of ModuleResolver.resolve.                                   *)
(***************************************************************************)
\* The substituted paths of the alias entries whose prefix the specifier
\* starts with, entries in registration order, candidates in list order.
RECURSIVE CandidateUrls(_, _)
CandidateUrls(m, specifier) ==
  IF m = <<>> THEN <<>>
  ELSE (IF StartsWith(specifier, Head(m).key)
        THEN [i \in 1..Len(Head(m).value) |->
                Head(m).value[i] \o SubSeq(specifier, Len(Head(m).key) + 1, Len(specifier))]
        ELSE <<>>) \o CandidateUrls(Tail(m), specifier)

\* The first of them that exists on disk, Undefined when none does.
FirstExisting(m, files, specifier) ==
  LET urls == CandidateUrls(m, specifier)
      ok == {i \in 1..Len(urls) : urls[i] \in files}
  IN IF ok = {} THEN Undefined
     ELSE urls[CHOOSE i \in ok : \A j \in ok : i <= j]

\* C3: resolve on a specifier that starts with a registered prefix returns
\* the URL built from the first candidate, in list order, whose substituted
\* path exists on disk, and no URL when none of the candidates exists.
C3_FirstExistingCandidate ==
  (last.called /\ CandidateUrls(aliases[last.resolver], last.specifier) # <<>>)
    => last.url = FirstExisting(aliases[last.resolver], fs, last.specifier)

\* C4: with the alias table and the file system unchanged, a resolve call
\* that follows one with the same (specifier, context) returns the same URL.
C4_SameUrlTwice ==
  [][(last.called /\ last'.called /\ last'.specifier = last.specifier
        /\ last'.context = last.context)
       => last'.url = last.url]_vars

(***************************************************************************)
(* Properties of ModuleResolver.transformCode.                             *)
(***************************************************************************)
\* The marks of the transformers of a pipeline that list the extension, in
\* the order of the pipeline.
MatchingIds(pipeline, ext) ==
  LET idx == {i \in 1..Len(pipeline) : \E j \in 1..Len(pipeline[i].exts) : pipeline[i].exts[j] = ext}
      Nth(k) == CHOOSE i \in idx : Cardinality({j \in idx : j < i}) = k - 1
  IN [k \in 1..Cardinality(idx) |-> pipeline[Nth(k)].id]

\* C10: transformCode applies exactly the transformers whose exts contain the
\* file's extension, earlier registered ones first, each on the output of the
\* one before: T1 registered before T2 gives T2(T1(source)).
C10_LeftFoldInRegistrationOrder ==
  lastTransform.called =>
    LET ids == MatchingIds(lastTransform.pipeline, lastTransform.filename[Len(lastTransform.filename)])
    IN lastTransform.out = IF ids = <<>> THEN <<>> ELSE lastTransform.code \o ids

\* T1 then T2 registered for .ts beside a transformer for .js: a .ts file
\* came out as T2(T1("x")).
C10_Witness ==
  /\ lastTransform.called
  /\ lastTransform.pipeline = <<TSHook, [id |-> "T3", exts |-> <<".js">>], [id |-> "T2", exts |-> <<".ts">>]>>
  /\ lastTransform.filename = <<"/f", ".ts">>
  /\ lastTransform.code = <<"x">>
  /\ lastTransform.out = <<"x", "T1", "T2">>

(***************************************************************************)
(* Properties of ModuleResolver.register / revert and registerRTS.         *)
(***************************************************************************)
\* Whether every registered resolver misses on the specifier: no alias entry
\* matches it or no candidate of the matching entries exists, and nothing is
\* cached for it.
AllMiss(entry, specifier) ==
  \A i \in 1..Len(entry) :
    /\ FirstExisting(aliases[entry[i].owner], fs, specifier) = Undefined
    /\ CacheKey(specifier, MainModule) \notin DOMAIN cache[entry[i].owner]

\* C5: while a ModuleResolver is registered, a request whose specifier
\* matches no alias, or whose candidates all fail the existence check,
\* reaches the original host resolver with the specifier unmodified.
C5_MissIsTransparent ==
  (lastRequest.called /\ lastRequest.entry # OriginalResolveFilename
     /\ AllMiss(lastRequest.entry, lastRequest.specifier))
    => lastRequest.hostArg = lastRequest.specifier

\* A resolver's calls alternate register(), revert(), ..., and end on revert().
RevertedProperly(h) ==
  /\ Len(h) % 2 = 0
  /\ \A i \in 1..Len(h) : h[i] = (IF i % 2 = 1 THEN "reg" ELSE "rev")

\* C6: for any interleaving of the register()/revert() calls of two
\* resolvers, once every resolver that registered has reverted, the host's
\* resolution entry point is the original function again.
C6_AllRevertedRestoresEntryPoint ==
  ((\A r \in Resolvers : RevertedProperly(hist[r])) /\ (\E r \in Resolvers : hist[r] # <<>>))
    => resolveFilename = OriginalResolveFilename

\* C7: after registerRTS was called twice and both returned cleanup functions
\* were called, the resolution entry point and the extension loaders are
\* what they were before the first call.
C7_CleanupsRestoreHost ==
  (hist[1] = <<"reg", "reg", "rev", "rev">> /\ hist[2] = <<>>)
    => (resolveFilename = OriginalResolveFilename /\ extensions = NativeExtensions)

\* C8: a revert() that follows a revert() of the same resolver leaves the
\* resolution entry point and the extension loaders unchanged, whatever the
\* other resolvers did in between.
C8_RevertIdempotent ==
  [][\A r \in Resolvers :
       (hist[r] # <<>> /\ hist[r][Len(hist[r])] = "rev" /\ hist'[r] = Append(hist[r], "rev"))
         => (resolveFilename' = resolveFilename /\ extensions' = extensions)]_vars

\* The host right after a first register() of resolver r with its transformers.
FirstRegister(r) ==
  InstallLoaders([table |-> NativeExtensions, old |-> [e \in Exts |-> UndefinedLoader]],
                 FlatMapExts(transformers[r]), 1, NativeLoader(".js"), r, 1)

\* C9: for a single resolver, after register(), revert(), register() the
\* second register() has captured the host's own resolver and loaders, not
\* closures of register(), and files of the covered extensions load as they
\* did after the first register().
C9_SecondCycleLikeFirst ==
  \A r \in Resolvers :
    (hist[r] = <<"reg", "rev", "reg">> /\ \A q \in Resolvers \ {r} : hist[q] = <<>>)
      => LET exts == revertRegister[r].extensions
             first == FirstRegister(r)
         IN /\ revertRegister[r].origResolve = OriginalResolveFilename
            /\ \A i \in 1..Len(exts) : oldLoaders[r][exts[i]].kind = "native"
            /\ \A i \in 1..Len(exts), c \in Sources :
                 LoadOutcome(extensions, oldLoaders, <<"/f", exts[i]>>, c)
                   = LoadOutcome(first.table, [oldLoaders EXCEPT ![r] = first.old],
                                 <<"/f", exts[i]>>, c)

\* C2: a deregister() call on a registration whose deregister() was already
\* called leaves the chain's contents and order as they are.
C2_DeregisterIdempotent ==
  [][\A i \in 1..Len(handles) :
       (handles[i].calls >= 1 /\ handles'[i].calls = handles[i].calls + 1)
         => hooks' = hooks]_vars

\* C11: in polyfill mode, once a resolver whose transformers list one
\* extension more than once has registered, a load of a file of that extension
\* terminates and compiles the fold of the matching transformers over the
\* source, in registration order.
ListedTwice(exts, e) == Cardinality({i \in 1..Len(exts) : exts[i] = e}) >= 2
Registered(r) == hist[r] # <<>> /\ hist[r][Len(hist[r])] = "reg"
C11_SharedExtensionLoadTerminates ==
  [][(/\ lastLoad' # lastLoad
      /\ Registered(2)
      /\ ListedTwice(revertRegister[2].extensions, ExtName(lastLoad'.filename)))
     => /\ lastLoad'.outcome.status = "compiled"
        /\ lastLoad'.outcome.code =
             TransformCode(transformers[2], lastLoad'.content, lastLoad'.filename)]_vars

\* C12: a file whose extension no transformer of the pipeline lists is
\* loaded from its source text unchanged, also after removeTransformer took
\* the last transformer of the extension away from a registered resolver.
NoneMatches(ts, filename) == MatchingIds(ts, ExtName(filename)) = <<>>
C12_UncoveredLoadsUnchanged ==
  [][(lastLoad' # lastLoad /\ NoneMatches(transformers[2], lastLoad'.filename))
     => /\ lastLoad'.outcome.status = "compiled"
        /\ lastLoad'.outcome.code = lastLoad'.content]_vars

\* C13: register() takes the Module.registerHooks path exactly when the major
\* version of Node.js is 24 or more, and the polyfill path otherwise: the
\* choice the register module makes from process.version.
TrueMajor(v) == ToNumber(BeforeDot(v))
C13_NativeExactlyFrom24 ==
  \A r \in Resolvers :
    revertRegister[r].set
    => /\ revertRegister[r].native = (TrueMajor(version) >= 24)
       /\ revertRegister[r].native = (RegisterMajor(ProcessVersion(version)) >= 24)

\* C14: the load function of a hook-set registered on the polyfill chain is
\* invoked for a module load request, the most recently registered hook-set
\* with a load function first.
LoadOrder == SortDesc({h.id : h \in {x \in Range(hooks) : x.hasLoad}})
C14_LoadHooksDispatched ==
  (loadDispatch.called /\ LoadOrder # <<>>)
  => /\ loadDispatch.offered # <<>>
     /\ IsPrefix(loadDispatch.offered, LoadOrder)

\* C15: a resolve hook that returns a result without url defers: the request
\* goes on to the following hook-sets and, after the last one, the original
\* host resolver receives the same specifier.
C15_NoUrlDefers ==
  \A k \in 1..Len(stack) :
    (stack[k].ret = "nourl" /\ stack[k].pc = "done")
    => /\ stack[k].offered = ResolveOrder
       /\ stack[k].hostArg = stack[k].spec

\* C16: a URL that resolve cached for one (specifier, calling context) pair
\* is never returned to a call with another specifier or from another calling
\* module, whether the context carries a parentURL or is the parent Module.
C16_CacheHitOnlyForSamePair ==
  [][(/\ last' # last
      /\ last'.called
      /\ CacheKey(last'.specifier, last'.context) \in DOMAIN cache[last'.resolver])
     => LET by == cachedBy[last'.resolver][CacheKey(last'.specifier, last'.context)]
        IN by.specifier = last'.specifier /\ by.context = last'.context]_vars

\* C17: in polyfill mode Module._resolveFilename is replaced once in the life
\* of the process: a register() call after the first one, of the same or of
\* another resolver, leaves the installed function as it is.
C17_EntryPointReplacedOnce ==
  [][(RegisterCalls >= 1 /\ RegisterCalls' = RegisterCalls + 1)
     => resolveFilename' = resolveFilename]_vars

\* C18: while the resolver is registered, a load of a file whose extension a
\* transformer of the pipeline lists at that time compiles the fold of the
\* matching transformers over the source, also for a transformer added after
\* register().  Stated for the extensions register() saw at most once, the
\* others being the case of C11.
C18_CoveredLoadsTransformed ==
  [][(/\ lastLoad' # lastLoad
      /\ Registered(2)
      /\ ~ListedTwice(revertRegister[2].extensions, ExtName(lastLoad'.filename))
      /\ ~NoneMatches(transformers[2], lastLoad'.filename))
     => /\ lastLoad'.outcome.status = "compiled"
        /\ lastLoad'.outcome.code =
             TransformCode(transformers[2], lastLoad'.content, lastLoad'.filename)]_vars

\* C19: when a hook's resolve function throws, the call of the resolution
\* ends with that exception: no hook-set after the throwing one and no host
\* resolver is invoked for the request, and the chain's list of hook-sets
\* stays as it was.
ThrownOut(k) ==
  LET f == stack[k] IN
  /\ f.pc = "thrown"
  /\ f.offered # <<>>
  /\ \E h \in Range(hooks) : h.id = f.offered[Len(f.offered)] /\ f.raised = Err(h)
  /\ Len(f.offered) = f.nexts + 1
  /\ f.url = NoFrameValue
  /\ f.hostArg = NoFrameValue
C19_ThrowPropagates ==
  [][/\ \A k \in 1..Len(stack') : stack'[k].ret = "throw" => ThrownOut(k)'
     /\ (\E k \in 1..Len(stack') : stack'[k].ret = "throw") => hooks' = hooks]_vars

\* Two hook-sets with resolve are registered, the later one threw: the earlier
\* one was not asked and the host resolver was not called.
C19_Witness ==
  /\ Len(ResolveOrder) >= 2
  /\ \E k \in 1..Len(stack) :
       /\ stack[k].ret = "throw"
       /\ stack[k].pc = "thrown"
       /\ stack[k].offered = <<ResolveOrder[1]>>
       /\ stack[k].hostArg = NoFrameValue

\* C20: when the compiler fails on malformed source, TSHook.hook throws the
\* failure to its caller and does not return the source it was given.
C20_CompilerFailureRethrown ==
  (lastHook.called /\ Malformed(lastHook.code))
  => (lastHook.threw /\ lastHook.out # lastHook.code)

\* C21: the result of transformCode for "no transformer matched" differs
\* from the result of matching transformers that output the empty text, and
\* in that second case the module is loaded with empty code, not with its
\* untransformed source.
NoMatchResult == TransformCode(<<>>, <<"x">>, <<"/f", ".ts">>)
C21_SentinelDistinctFromEmptyOutput ==
  [][/\ (lastTransform' # lastTransform
          /\ ~NoneMatches(lastTransform'.pipeline, lastTransform'.filename))
        => lastTransform'.out # NoMatchResult
     /\ (lastLoad' # lastLoad
          /\ ~NoneMatches(transformers[2], lastLoad'.filename)
          /\ TransformCode(transformers[2], lastLoad'.content, lastLoad'.filename) = <<>>)
        => lastLoad'.outcome.code = <<>>]_vars

(***************************************************************************)
(* mergeConfig                                                             *)
(***************************************************************************)
ObjectKeys(o) == {Enumerable(o)[i].key : i \in 1..Len(Enumerable(o))}
Items(a) == [i \in 1..Len(Enumerable(a)) |-> a.entries[i].value]

\* C22: when next holds an object under a key that base lacks, or holds as
\* null or as a primitive, the merge succeeds without throwing and the
\* result holds next's value under that key.
C22_MissingKeyTakesNextValue ==
  lastMerge.called =>
    \A key \in ObjectKeys(lastMerge.next) :
      (/\ InstanceOfObject(Get(lastMerge.next, key))
       /\ ~InstanceOfObject(Get(lastMerge.base, key)))
      => /\ ~lastMerge.result.threw
         /\ Get(lastMerge.result.value, key) = Get(lastMerge.next, key)

BothCarry(key, kind) ==
  /\ Get(lastMerge.base, key).kind = kind
  /\ Get(lastMerge.next, key).kind = kind

\* C23: when base and next both carry an alias map and a transformers list,
\* the merged alias map has the union of the keys with next's value on a
\* conflict, and the merged transformers list is base's entries followed by
\* next's entries.
C23_AliasUnionTransformersAppended ==
  (lastMerge.called /\ BothCarry("alias", "object") /\ BothCarry("transformers", "array"))
  => /\ ~lastMerge.result.threw
     /\ LET b == lastMerge.base
            n == lastMerge.next
            m == lastMerge.result.value
        IN /\ ObjectKeys(Get(m, "alias"))
                = ObjectKeys(Get(b, "alias")) \cup ObjectKeys(Get(n, "alias"))
           /\ \A k \in ObjectKeys(Get(m, "alias")) :
                Get(Get(m, "alias"), k)
                  = IF HasKey(Get(n, "alias"), k) THEN Get(Get(n, "alias"), k)
                    ELSE Get(Get(b, "alias"), k)
           /\ Items(Get(m, "transformers"))
                = Items(Get(b, "transformers")) \o Items(Get(n, "transformers"))

(***************************************************************************)
(* The polyfill chain under register, deregister and dispatch.             *)
(***************************************************************************)
AtMostOnce == \A i \in 1..Len(handles) : handles[i].calls <= 1
LiveIds == SortDesc({i \in 1..Len(handles) : handles[i].calls = 0})
Live == [k \in 1..Len(LiveIds) |-> handles[LiveIds[k]].hook]

\* C24: provided each registration's deregister() is called at most once,
\* the chain's list is the hook-sets registered and not yet deregistered, the
\* most recently registered first; so a deregister removes its own hook-set
\* and no other.
C24_ChainIsLiveRegistrations == AtMostOnce => hooks = Live

\* Three registrations, the second deregistered: the chain is the third, then the first.
C24_Witness ==
  /\ Len(handles) = 3
  /\ handles[1].calls = 0 /\ handles[2].calls = 1 /\ handles[3].calls = 0
  /\ Len(hooks) = 2 /\ hooks[1].id = 3 /\ hooks[2].id = 1

(***************************************************************************)
(* ModuleResolver.resolve: alias entries and the cache.                    *)
(***************************************************************************)
\* The entries of an alias table whose prefix the specifier starts with.
Matching(m, specifier) == {j \in 1..Len(m) : StartsWith(specifier, m[j].key)}
EntryUrls(m, j, specifier) ==
  {Replace(specifier, m[j].key, m[j].value[i]) : i \in 1..Len(m[j].value)}

\* C25: when the specifier starts with more than one registered prefix and
\* the earliest registered of these entries has a candidate that exists on
\* disk, a resolve call that scans the alias table returns a URL derived from
\* that entry.
C25_EarlierEntryWins ==
  [][\A r \in Resolvers :
       LET m == aliases[r]
           js == Matching(m, last'.specifier)
           first == CHOOSE j \in js : \A k \in js : j <= k
       IN (/\ last' # last /\ last'.called /\ last'.resolver = r
           /\ CacheGet(cache[r], CacheKey(last'.specifier, last'.context)) = Undefined
           /\ Cardinality(js) >= 2
           /\ EntryUrls(m, first, last'.specifier) \cap fs # {})
          => last'.url \in EntryUrls(m, first, last'.specifier)]_vars

\* The pair the resolve call noted in last' was made with is the pair of the
\* call that stored the cache entry of its key: an earlier call with this pair
\* found an existing candidate.
FoundBefore(r) ==
  LET key == CacheKey(last'.specifier, last'.context)
  IN /\ key \in DOMAIN cachedBy[r]
     /\ cachedBy[r][key] = [specifier |-> last'.specifier, context |-> last'.context]

\* C26: after a resolve call that found an existing candidate for a
\* (specifier, context) pair, a later resolve call with the same pair makes no
\* call of fs.existsSync.
C26_NoProbeAfterHit ==
  [][\A r \in Resolvers :
       (last' # last /\ last'.called /\ last'.resolver = r /\ FoundBefore(r))
         => last'.probes = 0]_vars

\* A call answered from the cache entry an earlier call with the same pair stored.
C26_Witness ==
  /\ last.called
  /\ last.probes = 0
  /\ LET key == CacheKey(last.specifier, last.context)
     IN /\ key \in DOMAIN cachedBy[last.resolver]
        /\ cachedBy[last.resolver][key]
             = [specifier |-> last.specifier, context |-> last.context]
        /\ last.url = cache[last.resolver][key]
        /\ last.url \in fs

\* C27: the resolution cache is never invalidated.  An entry of the cache
\* stays as it is whatever is called and whatever happens on disk, and a
\* resolve call of a key that has an entry returns the entry's URL.
C27_CacheNeverInvalidated ==
  [][\A r \in Resolvers :
       /\ \A key \in DOMAIN cache[r] :
            key \in DOMAIN cache'[r] /\ cache'[r][key] = cache[r][key]
       /\ (/\ last' # last /\ last'.called /\ last'.resolver = r
           /\ CacheKey(last'.specifier, last'.context) \in DOMAIN cache[r])
          => last'.url = cache[r][CacheKey(last'.specifier, last'.context)]]_vars

\* A resolve call answered with an entry whose file is gone and whose alias
\* now points elsewhere, on a resolver that registered and reverted since.
C27_Witness ==
  /\ last.called /\ last.resolver = 2 /\ last.probes = 0
  /\ CacheKey(last.specifier, last.context) \in DOMAIN cache[2]
  /\ last.url = cache[2][CacheKey(last.specifier, last.context)]
  /\ last.url \notin fs
  /\ \A j \in 1..Len(aliases[2]) :
       last.url \notin EntryUrls(aliases[2], j, last.specifier)
  /\ aliases[2] # <<>>
  /\ transformers[2] # <<>>
  /\ Count(hist[2], "reg") >= 1 /\ Count(hist[2], "rev") >= 1

\* C28: when the chain is exhausted, the continuation falls back on the host
\* resolver captured at construction: a hook whose next ran off the end of
\* the chain receives the host's resolution of the specifier, and a request
\* that no hook-set has a resolve function for is answered with the host's
\* resolution of it.
C28_ExhaustedChainAsksHost ==
  \A k \in 1..Len(stack) :
    LET f == stack[k] IN
      /\ (f.pc \in {"host", "done"} /\ f.ret = "none" /\ f.nexts >= 1)
            => f.got = HostResolution(f.cur)
      /\ (f.pc = "done" /\ f.offered = <<>>) => f.result = HostResolution(f.spec)

\* The hook-sets that were in the chain when the call of frame f was made and
\* still are.
Stayed(f) == f.atStart \cap {hooks[i].id : i \in 1..Len(hooks)}

\* C29: in a dispatch in which every invoked hook calls next, each hook-set
\* that stays registered from the start of the dispatch to its end is invoked
\* exactly once, whatever register() and deregister() calls the hooks make
\* meanwhile.
C29_EachStayingHookOnce ==
  \A k \in 1..Len(stack) :
    LET f == stack[k] IN
      (f.pc \in {"host", "done"} /\ f.ret = "none")
        => \A id \in Stayed(f) : Count(f.offered, id) = 1

\* The position in the chain of the hook-set a frame offered the request to last.
Position(f) == IndexOf([i \in 1..Len(hooks) |-> hooks[i].id], f.offered[Len(f.offered)])
Cursor(f) == [index |-> f.index, offered |-> f.offered, nexts |-> f.nexts, cur |-> f.cur]

\* C30: nested resolutions do not share continuation state.  A resolution
\* started from inside a hook begins at index 0 and leaves the requests in
\* progress as they are; while it runs and when it ends, the position of the
\* outer request does not move; and the next of a hook continues its own
\* request at the position that follows that hook.
C30_NestedResolutionsIndependent ==
  [][/\ Len(stack') = Len(stack) + 1
          => /\ stack'[Len(stack')].index = 0
             /\ stack'[Len(stack')].offered = <<>>
             /\ SubSeq(stack', 1, Len(stack)) = stack
     /\ Len(stack') = Len(stack) - 1
          => \A k \in 1..Len(stack') : Cursor(stack'[k]) = Cursor(stack[k])
     /\ Len(stack') = Len(stack)
          => \A k \in 1..(Len(stack) - 1) : stack'[k] = stack[k]
     /\ \A k \in 1..Min(Len(stack), Len(stack')) :
          stack'[k].nexts = stack[k].nexts + 1
            => /\ stack[k].offered # <<>>
               /\ stack'[k].index = Position(stack[k]) + 1]_vars

\* With two hook-sets in the chain, the second hook asked made a require:
\* that request started at the first hook-set and went through the whole
\* chain while the outer request stands at the second.
C30_Witness ==
  /\ Len(hooks) = 2
  /\ Len(stack) = 2
  /\ stack[1].pc = "hook" /\ stack[1].index = 1
  /\ stack[1].offered = <<2, 1>> /\ stack[1].nexts = 1
  /\ stack[2].pc = "done" /\ stack[2].index = 2
  /\ stack[2].offered = <<2, 1>> /\ stack[2].nexts = 2

(***************************************************************************)
(* One resolver: register(), revert() and the host's tables.               *)
(***************************************************************************)
\* C31: for a single resolver with no other activity, register() followed by
\* revert() leaves the resolution entry point and the whole table of
\* extension loaders as they were before register(), the extensions that had
\* no loader included.
C31_RegisterRevertRestoresHost ==
  (hist[2] = <<"reg", "rev">> /\ hist[1] = <<>>)
    => (resolveFilename = OriginalResolveFilename /\ extensions = NativeExtensions)

(***************************************************************************)
(* ModuleResolver.setAlias.                                                *)
(***************************************************************************)
\* The step is a call of setAlias.
IsSetAlias(l) == ~l.called /\ "set" \in DOMAIN l
GivenList(target) == IF target.isArray THEN target.arr ELSE <<target.str>>

\* C32: setAlias replaces, never merges.  After setAlias assigns a prefix that
\* is already present, the candidate list of the prefix is the list given (a
\* string being a list of one element), and every other prefix and its
\* candidates are as before, in the same order.
C32_SetAliasReplaces ==
  [][(IsSetAlias(last') /\ (last' # last \/ aliases' # aliases))
       => LET r == last'.set.resolver
              k == last'.set.key
              m == aliases[r]
          IN (\E j \in 1..Len(m) : m[j].key = k)
               => /\ Len(aliases'[r]) = Len(m)
                  /\ \A j \in 1..Len(m) :
                       /\ aliases'[r][j].key = m[j].key
                       /\ aliases'[r][j].value
                            = IF m[j].key = k THEN GivenList(last'.set.target)
                              ELSE m[j].value]_vars

\* Two prefixes are present and the latest setAlias gave the first of them a
\* string target: its list is that one candidate.
C32_Witness ==
  /\ IsSetAlias(last)
  /\ ~last.set.target.isArray
  /\ Len(aliases[last.set.resolver]) = 2
  /\ aliases[last.set.resolver][1].key = last.set.key
  /\ aliases[last.set.resolver][1].value = <<last.set.target.str>>

(***************************************************************************)
(* transformCode and hooks that throw.                                     *)
(***************************************************************************)
\* The transformers of a pipeline that list the extension of the file.
MatchingOf(pipeline, filename) ==
  SelectSeq(pipeline, LAMBDA t : Includes(t.exts, ExtName(filename)))
FirstThrower(ms) == CHOOSE i \in 1..Len(ms) : Throws(ms[i]) /\ \A j \in 1..(i - 1) : ~Throws(ms[j])

\* C33: transformCode does not catch what a transformer throws.  When a
\* matching transformer throws, the call ends with the exception, the
\* transformers after it in the fold are not run, and no text, transformed
\* or original, is returned.
C33_TransformerExceptionPropagates ==
  lastTransform.called =>
    LET ms == MatchingOf(lastTransform.pipeline, lastTransform.filename)
    IN (\E i \in 1..Len(ms) : Throws(ms[i]))
         => /\ lastTransform.threw
            /\ lastTransform.out = NoResult
            /\ lastTransform.ran = [i \in 1..FirstThrower(ms) |-> ms[i].id]

\* T2, the throwing transformer and T2 again match the file: T2 ran once, the
\* throwing one ran, the call ended there.
C33_Witness ==
  /\ lastTransform.called
  /\ lastTransform.threw
  /\ lastTransform.ran = <<"T2", "X">>
  /\ Len(MatchingOf(lastTransform.pipeline, lastTransform.filename)) = 3

(***************************************************************************)
(* The patched Module._resolveFilename and the host resolver.              *)
(***************************************************************************)
\* C34: in polyfill mode the original host resolver is invoked exactly once
\* for a resolution request, after the hook chain has returned and with the
\* URL the chain produced, also when a hook returned a URL itself without
\* calling next; while the chain runs it is not invoked.
C34_HostResolverOncePerRequest ==
  \A k \in 1..Len(stack) :
    LET f == stack[k] IN
      /\ f.pc = "done" => (f.hostCalls = 1 /\ f.hostArg = f.url)
      /\ f.pc # "done" => (f.hostCalls = 0 /\ f.hostArg = NoFrameValue)

\* A hook answered the request itself and the host resolver was called once,
\* with the hook's URL.
C34_Witness ==
  \E k \in 1..Len(stack) :
    /\ stack[k].pc = "done"
    /\ stack[k].ret = "url"
    /\ stack[k].nexts = 0
    /\ stack[k].hostCalls = 1
    /\ stack[k].hostArg = <<"hooked", "/x">>

(***************************************************************************)
(* register() called twice on one resolver.                                *)
(***************************************************************************)
\* C35: in polyfill mode, after register() was called twice on one resolver
\* with no revert() in between, the load of a file whose extension the
\* registration covers terminates: the loaders do not call one another
\* without end.  Stated for the extensions register() saw once, the others
\* being the case of C11.
C35_DoubleRegisterLoadTerminates ==
  [][(/\ lastLoad' # lastLoad
      /\ hist[2] = <<"reg", "reg">>
      /\ Includes(revertRegister[2].extensions, ExtName(lastLoad'.filename))
      /\ ~ListedTwice(revertRegister[2].extensions, ExtName(lastLoad'.filename)))
     => lastLoad'.outcome.status # "stack overflow"]_vars

(***************************************************************************)
(* mergeConfig on configurations of the same shape.                        *)
(***************************************************************************)
\* Every object-valued key of new is an object in old, at every depth.
RECURSIVE SameShape(_, _)
SameShape(old, new) ==
  \A i \in 1..Len(Enumerable(new)) :
    LET key == new.entries[i].key
        value == new.entries[i].value
    IN InstanceOfObject(value)
         => (InstanceOfObject(Get(old, key)) /\ SameShape(Get(old, key), value))

\* The recursive merge: the keys of old in their order, each with new's value
\* when new has the key as a leaf, with the merge of the two values when new
\* has it as an object, and with old's value otherwise; then the keys only
\* new has.
RECURSIVE Merged(_, _)
Merged(old, new) ==
  LET kept == [i \in 1..Len(Enumerable(old)) |->
                 LET key == old.entries[i].key
                 IN IF ~HasKey(new, key) THEN old.entries[i]
                    ELSE IF InstanceOfObject(Get(new, key))
                    THEN Prop(key, Merged(old.entries[i].value, Get(new, key)))
                    ELSE Prop(key, Get(new, key))]
      added == SelectSeq(Enumerable(new), LAMBDA e : ~HasKey(old, e.key))
  IN [old EXCEPT !.entries = kept \o added]

C37_PatchForwardsArguments ==
  (lastRequest.called /\ lastRequest.entry # OriginalResolveFilename)
    => /\ lastRequest.hostIsMain = lastRequest.isMain
       /\ lastRequest.hostOptions = lastRequest.options

\* The transformers and the alias keys the registerRTS calls so far passed.
RECURSIVE PassedTransformers(_)
PassedTransformers(calls) ==
  IF calls = <<>> THEN <<>>
  ELSE Head(calls).transformers \o PassedTransformers(Tail(calls))
PassedAliasKeys ==
  UNION {{rtsCalls[i].alias[j].key : j \in DOMAIN rtsCalls[i].alias} : i \in DOMAIN rtsCalls}
TimesPassed(t) == Count(PassedTransformers(rtsCalls), t)

\* C38: the cleanups of registerRTS take nothing back from the shared
\* resolver.  Whatever registerRTS and cleanup calls were made, the pipeline is
\* the resolver's own TSHook followed by every transformer every call passed,
\* every alias key a call passed is still set, no step shortens the pipeline,
\* and a transform of a file runs each matching transformer once for each
\* call it was passed in.
C38_CleanupKeepsWhatCallsAdded ==
  /\ [](/\ transformers[1] = <<TSHook>> \o PassedTransformers(rtsCalls)
        /\ PassedAliasKeys \subseteq {aliases[1][i].key : i \in DOMAIN aliases[1]})
  /\ [][/\ Len(transformers'[1]) >= Len(transformers[1])
        /\ lastTransform' # lastTransform =>
             \A i \in DOMAIN PassedTransformers(rtsCalls) :
               LET t == PassedTransformers(rtsCalls)[i]
               IN Includes(t.exts, ExtName(lastTransform'.filename))
                    => Count(lastTransform'.ran, t.id) = TimesPassed(t)]_vars

\* Two registerRTS calls passed T2, the cleanup of the first ran between
\* them, and a transform of a .ts file then ran T2 twice.
C38_Witness ==
  /\ Len(rtsCalls) = 2
  /\ TimesPassed([id |-> "T2", exts |-> <<".ts">>]) = 2
  /\ hist[1] = <<"reg", "rev", "reg">>
  /\ lastTransform.called
  /\ lastTransform.pipeline = transformers[1]
  /\ ExtName(lastTransform.filename) = ".ts"
  /\ Count(lastTransform.ran, "T2") = 2

\* C39: with --dry-run the release command makes no actual change: whatever
\* the other flags are and however its steps end, a run of release --dry-run
\* writes no build output, bumps no version, publishes nothing and makes no
\* git tag.
C39_DryRunChangesNothing ==
  (releaseRun.command = "release" /\ releaseRun.dryRun) => releaseRun.made = {}

====
